---------------------------- MODULE Spec2Model ----------------------------
(***************************************************************************)
(* A model of the orb physics engine (src/src/lib/logic/orbPhysics.ts):    *)
(* the OrbSystem class with its four operations setConfig, resize,         *)
(* initOrbs and update.                                                     *)
(*                                                                         *)
(* Numbers.  The source computes in IEEE doubles.  The model computes in   *)
(* decimal fixed point: a source number v is the integer round(v * SCALE), *)
(* SCALE = 10^4, so one unit is 0.0001 (px, px/frame, rad).  Every         *)
(* arithmetic helper rounds to nearest, half away from zero.  Math.sin,    *)
(* Math.cos, Math.exp, Math.atan2 and Math.sqrt are computed (series,      *)
(* Newton iteration), not tabulated.                                       *)
(***************************************************************************)
EXTENDS Integers, Sequences, FiniteSets, TLC

(***************************************************************************)
(* Fixed-point arithmetic                                                  *)
(***************************************************************************)
SCALE == 100 * 100

Abs(a) == IF a < 0 THEN -a ELSE a

Sgn(a) == IF a < 0 THEN -1 ELSE IF a > 0 THEN 1 ELSE 0

Min(a, b) == IF a < b THEN a ELSE b

Max(a, b) == IF a > b THEN a ELSE b

\* n / d for integers, d > 0, rounded to nearest (half away from zero).
RoundDiv(n, d) ==
    IF n >= 0 THEN (n + d \div 2) \div d ELSE -((-n + d \div 2) \div d)

\* Fx(n, d): the fixed-point value of the decimal n/d, e.g. Fx(98, 100) = 0.98.
Fx(n, d) == RoundDiv(n * SCALE, d)

\* a * b of two fixed-point numbers.  The product of the integers is split
\* in limbs of SCALE so that no intermediate exceeds the result.
MulAbs(a, b) ==
    LET a1 == a \div SCALE
        a0 == a % SCALE
        b1 == b \div SCALE
        b0 == b % SCALE
    IN  a1 * b1 * SCALE + a1 * b0 + a0 * b1 + (a0 * b0 + SCALE \div 2) \div SCALE

Mul(a, b) ==
    IF Abs(a) < 40000 /\ Abs(b) < 40000 THEN RoundDiv(a * b, SCALE)
    ELSE Sgn(a) * Sgn(b) * MulAbs(Abs(a), Abs(b))

\* a / b of two fixed-point numbers, b # 0: long division, the fraction
\* computed on operands scaled down together when b is large.
DivAbs(a, b) ==
    LET q == a \div b
        r == a % b
        k == b \div 100000 + 1
        rr == IF b < 200000 THEN r ELSE r \div k
        bb == IF b < 200000 THEN b ELSE b \div k
    IN  q * SCALE + (rr * SCALE + bb \div 2) \div bb

Div(a, b) == Sgn(a) * Sgn(b) * DivAbs(Abs(a), Abs(b))

\* Integer square root by Newton's iteration from an upper estimate x.
RECURSIVE ISqrtFrom(_, _)
ISqrtFrom(a, x) ==
    LET y == (x + a \div x) \div 2
    IN  IF y >= x THEN x ELSE ISqrtFrom(a, y)

ISqrt(a) == IF a <= 0 THEN 0 ELSE ISqrtFrom(a, Min(a, 46341))

\* Math.sqrt on fixed point: sqrt(a / SCALE) * SCALE = sqrt(a) * 100, with
\* one first-order correction for the digits below the integer root.
SqrtFrom(a, s) ==
    IF s = 0 THEN 0 ELSE 100 * s + RoundDiv((a - s * s) * 50, s)

Sqrt(a) == SqrtFrom(a, ISqrt(a))

PI == 31416

TWO_PI == 62832

HALF_PI == 15708

\* x reduced to (-PI, PI].  2*pi = 6.2831853: the 0.147 units by which
\* TWO_PI exceeds it are given back once per turn removed.
ReduceAngle(x) ==
    LET k == x \div TWO_PI
        r == (x - k * TWO_PI) + RoundDiv(k * 147, 1000)
    IN  IF r > PI THEN r - TWO_PI ELSE r

\* sin on [-PI/2, PI/2]: x - x^3/3! + x^5/5! - x^7/7! + x^9/9!, summed
\* from the term of degree k on; each term is the one before times
\* -x^2 / ((k + 1)(k + 2)).
RECURSIVE SinFrom(_, _, _)
SinFrom(term, x2, k) ==
    IF k >= 9 THEN term
    ELSE term + SinFrom(-RoundDiv(Mul(term, x2), (k + 1) * (k + 2)), x2, k + 2)

SinSeries(x) == SinFrom(x, Mul(x, x), 1)

\* sin of an angle r in (-PI, PI]: folded onto [-PI/2, PI/2].
SinReduced(r) ==
    SinSeries(IF r > HALF_PI THEN PI - r
              ELSE IF r < -HALF_PI THEN -PI - r
              ELSE r)

\* Math.sin
Sin(x) == SinReduced(ReduceAngle(x))

\* Math.cos
Cos(x) == Sin(x + HALF_PI)

\* Math.exp for x >= 0: sum of x^k / k! until the term vanishes.
RECURSIVE ExpFrom(_, _, _)
ExpFrom(x, term, k) ==
    IF term = 0 THEN 0
    ELSE term + ExpFrom(x, RoundDiv(Mul(term, x), k), k + 1)

Exp(x) == ExpFrom(x, SCALE, 1)

\* atan on [-0.4143, 0.4143]: z - z^3/3 + z^5/5 - z^7/7 + z^9/9, summed
\* from the term of degree k on, power = z^k.
RECURSIVE AtanFrom(_, _, _)
AtanFrom(power, z2, k) ==
    IF k >= 9 THEN RoundDiv(power, k)
    ELSE RoundDiv(power, k) - AtanFrom(Mul(power, z2), z2, k + 2)

AtanSeries(z) == AtanFrom(z, Mul(z, z), 1)

\* atan on [0, 1]: above tan(pi/8) use atan(z) = pi/4 + atan((z-1)/(z+1)).
AtanUnit(z) ==
    IF z > 4142 THEN 7854 + AtanSeries(Div(z - SCALE, z + SCALE))
    ELSE AtanSeries(z)

\* atan2 in the first quadrant, ay >= 0 and ax >= 0; 0 at the origin.
AtanQuadrant(ay, ax) ==
    IF ax = 0 /\ ay = 0 THEN 0
    ELSE IF ay <= ax THEN AtanUnit(Div(ay, ax))
    ELSE HALF_PI - AtanUnit(Div(ax, ay))

\* The first-quadrant angle base carried to the quadrant of (x, y).
AtanSigned(y, x, base) ==
    IF x >= 0 THEN (IF y >= 0 THEN base ELSE -base)
    ELSE (IF y >= 0 THEN PI - base ELSE base - PI)

\* Math.atan2(y, x), in (-PI, PI]; atan2(0, 0) = 0.
Atan2(y, x) == AtanSigned(y, x, AtanQuadrant(Abs(y), Abs(x)))

(***************************************************************************)
(* Configuration (OrbConfig, DEFAULT_CONFIG)                               *)
(***************************************************************************)
DEFAULT_CONFIG ==
    [ORB_COUNT |-> 6,
     SIZE      |-> [MIN |-> 200 * SCALE, MAX |-> 500 * SCALE],
     OPACITY   |-> [MIN |-> Fx(6, 10), MAX |-> Fx(9, 10)],
     COLORS    |-> [HUE_RANGE  |-> 360 * SCALE,
                    CHROMA     |-> Fx(18, 100),
                    LIGHTNESS  |-> Fx(75, 100),
                    HUE_OFFSET |-> [MIN |-> 30 * SCALE, MAX |-> 90 * SCALE]],
     PHYSICS   |-> [FRICTION                |-> Fx(98, 100),
                    ACCELERATION            |-> Fx(15, 1000),
                    MAX_VELOCITY            |-> Fx(8, 10),
                    BOUNDARY_FORCE          |-> Fx(3, 100),
                    WANDER_JITTER           |-> Fx(8, 100),
                    REPULSION_STRENGTH      |-> Fx(5, 10),
                    REPULSION_RADIUS_FACTOR |-> Fx(5, 10),
                    GRAVITY_STRENGTH        |-> Fx(15, 10)]]

\* The PHYSICS group as the earlier revision of the module declares it:
\* the same interface without GRAVITY_STRENGTH.
LEGACY_PHYSICS ==
    [FRICTION                |-> Fx(98, 100),
     ACCELERATION            |-> Fx(1, 100),
     MAX_VELOCITY            |-> Fx(8, 10),
     BOUNDARY_FORCE          |-> Fx(3, 100),
     WANDER_JITTER           |-> Fx(1, 100),
     REPULSION_STRENGTH      |-> Fx(5, 10),
     REPULSION_RADIUS_FACTOR |-> Fx(5, 10)]

\* The names of the configuration's top-level fields and of the fields of
\* its nested groups (interface OrbConfig).
ConfigKeys == {"ORB_COUNT", "SIZE", "OPACITY", "COLORS", "PHYSICS"}

GroupKeys == {"SIZE", "OPACITY", "COLORS", "PHYSICS"}

(***************************************************************************)
(* Bounds of the model and the inputs the operations are called with       *)
(***************************************************************************)
\* initOrbs is modelled for at most MaxOrbs particles of at most MaxSize px.
MaxOrbs == 2

MaxSize == 250

\* update is modelled for the first MaxFrames frames (time = 0.002 * frames).
MaxFrames == 2

\* Math.random() returns a double in [0, 1).  A call of initOrbs or update
\* consumes a sequence of draws; the model takes the k-th draw of a call
\* from RandSamples, walking it from a start index with a stride.
RandSamples == <<0, Fx(5, 10), SCALE - 1>>

Draw(tape, k) == RandSamples[((tape[1] + k * tape[2]) % Len(RandSamples)) + 1]

InitTapes == {<<2, 0>>, <<0, 1>>, <<1, 1>>}

\* The sparse overrides setConfig is called with.
PartialChoices ==
    {[ORB_COUNT |-> n, SIZE |-> [MIN |-> 50 * SCALE, MAX |-> MaxSize * SCALE]] :
        n \in 1..MaxOrbs}

\* The viewport sizes resize is called with (0: a collapsed viewport).
DimChoices == {<<0, 200>>, <<300, 200>>, <<40, 40>>}

(***************************************************************************)
(* State of an OrbSystem and of the handles of the last update call        *)
(***************************************************************************)
VARIABLES
    width, height,          \* OrbSystem.width, .height (px, integers)
    states,                 \* OrbSystem.states: sequence of OrbState
    orbs,                   \* OrbSystem.orbs: sequence of OrbVisual
    config,                 \* OrbSystem.config
    time,                   \* OrbSystem.time
    call,                   \* the last call made and its arguments; for
                            \* update, the handle arrays as the call left them
    threw,                  \* the last call ended in an exception
    pairDv,                 \* velocity change of each particle in the
                            \* pairwise phase of the last update
    page                    \* +page.svelte: the $state fields of the page,
                            \* the local storage entry it keeps, and the
                            \* generate calls it has made with their workers

vars == <<width, height, states, orbs, config, time, call, threw, pairDv,
          page>>

(***************************************************************************)
(* The page (+page.svelte, lines 21-47) as the component is created        *)
(***************************************************************************)
\* selectedFile = null
NoFile == "null"

\* The page before onMount: the initial values of its $state fields, no
\* entry in local storage (storage: the value of the key
\* "app_appearance_settings", <<>> when absent), no generate call made.
NewPage ==
    [selectedFile      |-> NoFile,
     previewUrl        |-> "",
     isProcessing      |-> FALSE,
     isDragging        |-> FALSE,
     results           |-> <<>>,
     showSettings      |-> FALSE,
     highContrastEdges |-> FALSE,
     bgOrbCount        |-> 6,
     bgSizeMin         |-> 200,
     bgSizeMax         |-> 500,
     showCustomEditor  |-> FALSE,
     CropperClass      |-> FALSE,
     cropper           |-> FALSE,
     settingsLoaded    |-> FALSE,
     storage           |-> <<>>,
     jobs              |-> <<>>]

\* OrbSystem's field initialisers and constructor, config defaulted.
Init ==
    /\ width = 0
    /\ height = 0
    /\ states = <<>>
    /\ orbs = <<>>
    /\ config = DEFAULT_CONFIG
    /\ time = 0
    /\ call = [name |-> "constructor"]
    /\ threw = FALSE
    /\ page = NewPage
    /\ pairDv = <<>>

(***************************************************************************)
(* setConfig                                                               *)
(***************************************************************************)
\* A variant of Spread that merges b over the defaults instead of over a.
SpreadOverDefaults(a, b) ==
    [k \in DOMAIN DEFAULT_CONFIG \cup DOMAIN b |->
        IF k \in DOMAIN b THEN b[k] ELSE DEFAULT_CONFIG[k]]

\* { ...a, ...b }: the own fields of b over those of a.
Spread(a, b) ==
    [k \in DOMAIN a \cup DOMAIN b |-> IF k \in DOMAIN b THEN b[k] ELSE a[k]]

\* A variant of setConfig that also empties the population for a rebuild.
setConfigResets(newConfig) ==
    /\ config' = Spread(config, newConfig)
    /\ states' = <<>>
    /\ orbs' = <<>>
    /\ call' = [name |-> "setConfig", newConfig |-> newConfig]
    /\ threw' = FALSE
    /\ UNCHANGED <<page, width, height, time, pairDv>>

setConfig(newConfig) ==
    /\ config' = Spread(config, newConfig)
    /\ call' = [name |-> "setConfig", newConfig |-> newConfig]
    /\ threw' = FALSE
    /\ UNCHANGED <<page, width, height, states, orbs, time, pairDv>>

(***************************************************************************)
(* initOrbs                                                                *)
(***************************************************************************)
\* A variant of rand that scales the draw by max instead of max - min.
randUnshifted(min, max, u) == Mul(u, max) + min

\* OrbSystem.rand: Math.random() * (max - min) + min, u the random draw.
rand(min, max, u) == Mul(u, max - min) + min

\* randomGradient: the gradient string, kept as the values it is built from.
randomGradient(cfg, uAngle, uH1, uOff) ==
    LET angle == rand(0, 360 * SCALE, uAngle)
        h1 == rand(0, cfg.COLORS.HUE_RANGE, uH1)
        h2 == (h1 + rand(cfg.COLORS.HUE_OFFSET.MIN, cfg.COLORS.HUE_OFFSET.MAX, uOff))
                  % (360 * SCALE)
    IN  [angle |-> angle, L |-> cfg.COLORS.LIGHTNESS, C |-> cfg.COLORS.CHROMA,
         h1 |-> h1, h2 |-> h2]

\* Draws made by one iteration of the loop of initOrbs, in source order.
DrawsPerOrb == 10

\* The OrbState pushed by iteration i (from 0) of the loop of initOrbs.
NewState(cfg, w, h, tape, i) ==
    LET d(k) == Draw(tape, DrawsPerOrb * i + k)
        size == rand(cfg.SIZE.MIN, cfg.SIZE.MAX, d(0))
    IN  [x    |-> rand(-50 * SCALE, w * SCALE - size + 50 * SCALE, d(1)),
         y    |-> rand(-50 * SCALE, h * SCALE - size + 50 * SCALE, d(2)),
         vx   |-> rand(-SCALE, SCALE, d(3)),
         vy   |-> rand(-SCALE, SCALE, d(4)),
         size |-> size,
         wanderTheta |-> rand(0, Mul(PI, 2 * SCALE), d(5))]

\* A variant of NewVisual that draws a size of its own for the visual.
NewVisualOwnSize(cfg, tape, i) ==
    [size     |-> rand(cfg.SIZE.MIN, cfg.SIZE.MAX, Draw(tape, DrawsPerOrb * i + 1)),
     gradient |-> randomGradient(cfg, Draw(tape, DrawsPerOrb * i + 6),
                                 Draw(tape, DrawsPerOrb * i + 7),
                                 Draw(tape, DrawsPerOrb * i + 8)),
     opacity  |-> rand(cfg.OPACITY.MIN, cfg.OPACITY.MAX,
                       Draw(tape, DrawsPerOrb * i + 9))]

\* The OrbVisual pushed by iteration i (from 0) of the loop of initOrbs.
NewVisual(cfg, tape, i) ==
    LET d(k) == Draw(tape, DrawsPerOrb * i + k)
    IN  [size     |-> rand(cfg.SIZE.MIN, cfg.SIZE.MAX, d(0)),
         gradient |-> randomGradient(cfg, d(6), d(7), d(8)),
         opacity  |-> rand(cfg.OPACITY.MIN, cfg.OPACITY.MAX, d(9))]

\* A variant of the early return that needs both dimensions to be missing.
NoDimensionsBoth == width = 0 /\ height = 0

\* The early return of initOrbs and of update: !this.width || !this.height.
NoDimensions == width = 0 \/ height = 0

\* The lists initOrbs builds: one entry per i with 0 <= i < ORB_COUNT.
BuiltStates(cfg, w, h, tape) ==
    [i \in 1..cfg.ORB_COUNT |-> NewState(cfg, w, h, tape, i - 1)]

\* A variant of BuiltOrbs whose loop stops one entry early.
BuiltOrbsShort(cfg, tape) ==
    [i \in 1..(cfg.ORB_COUNT - 1) |-> NewVisual(cfg, tape, i - 1)]

BuiltOrbs(cfg, tape) ==
    [i \in 1..cfg.ORB_COUNT |-> NewVisual(cfg, tape, i - 1)]

\* The populations the model builds: within MaxOrbs and MaxSize.
Modelled(cfg) ==
    cfg.ORB_COUNT <= MaxOrbs /\ cfg.SIZE.MAX <= MaxSize * SCALE

initOrbs(tape) ==
    /\ NoDimensions \/ Modelled(config)
    /\ IF NoDimensions
       THEN UNCHANGED <<states, orbs>>
       ELSE /\ states' = BuiltStates(config, width, height, tape)
            /\ orbs' = BuiltOrbs(config, tape)
    /\ call' = [name |-> "initOrbs"]
    /\ threw' = FALSE
    /\ UNCHANGED <<page, width, height, config, time, pairDv>>

(***************************************************************************)
(* resize                                                                  *)
(***************************************************************************)
\* A variant of resize that also rebuilds the population for the new size.
resizeRebuilds(w, h) ==
    /\ width' = w
    /\ height' = h
    /\ IF w # 0 /\ h # 0 /\ Modelled(config)
       THEN /\ states' = BuiltStates(config, w, h, <<0, 1>>)
            /\ orbs' = BuiltOrbs(config, <<0, 1>>)
       ELSE UNCHANGED <<states, orbs>>
    /\ call' = [name |-> "resize", w |-> w, h |-> h]
    /\ threw' = FALSE
    /\ UNCHANGED <<page, config, time, pairDv>>

resize(w, h) ==
    /\ width' = w
    /\ height' = h
    /\ call' = [name |-> "resize", w |-> w, h |-> h]
    /\ threw' = FALSE
    /\ UNCHANGED <<page, states, orbs, config, time, pairDv>>

(***************************************************************************)
(* update: the physics of one frame                                        *)
(***************************************************************************)
\* this.time += 0.002
TIME_STEP == 20

\* const TANGENTIAL_FORCE = 0.08
TANGENTIAL_FORCE == 800

\* const softeningSq = 5000 (px^2)
softeningSq == 50000000

\* const suctionStrength = 0.8
suctionStrength == 8000

\* const margin = -100 (px)
margin == -1000000

\* this.config.PHYSICS.GRAVITY_STRENGTH || 0.05
GRAVITY_STRENGTH(cfg) ==
    IF "GRAVITY_STRENGTH" \in DOMAIN cfg.PHYSICS /\ cfg.PHYSICS.GRAVITY_STRENGTH # 0
    THEN cfg.PHYSICS.GRAVITY_STRENGTH
    ELSE Fx(5, 100)

\* this.config.PHYSICS.REPULSION_STRENGTH || 0.5
repulsionStrength(cfg) ==
    IF "REPULSION_STRENGTH" \in DOMAIN cfg.PHYSICS /\ cfg.PHYSICS.REPULSION_STRENGTH # 0
    THEN cfg.PHYSICS.REPULSION_STRENGTH
    ELSE Fx(5, 10)

\* Math.sqrt(a * a + b * b).  Small operands are squared exactly.
Hypot(a, b) ==
    IF Abs(a) < 30000 /\ Abs(b) < 30000
    THEN ISqrt(a * a + b * b)
    ELSE Sqrt(Mul(a, a) + Mul(b, b))

\* 0. Ambient drift of particle i (from 1; the source's index is i - 1).
AmbientDrift(s, i, t) ==
    LET seed == (i - 1) * 1000 * SCALE
        noiseX == Mul(Sin(Mul(t, Fx(5, 10)) + seed), Fx(4, 100))
                  + Mul(Sin(Mul(t, Fx(13, 10)) + seed * 2), Fx(2, 100))
        noiseY == Mul(Cos(Mul(t, Fx(6, 10)) + seed), Fx(4, 100))
                  + Mul(Cos(Mul(t, Fx(14, 10)) + seed * 3), Fx(2, 100))
    IN  [s EXCEPT !.vx = @ + noiseX, !.vy = @ + noiseY]

\* A variant of ContactForce that pushes apart in the suction zone too.
ContactForceRepelOnly(cfg, dist, touchDist, interactDist) ==
    IF dist < touchDist
    THEN Mul(repulsionStrength(cfg),
             Exp(Mul(Div(touchDist - dist, touchDist), 4 * SCALE)))
    ELSE Mul(suctionStrength,
             Sin(Mul(Div(dist - touchDist, interactDist - touchDist), PI)))

\* The contact force along the normal at centre distance dist: repulsion
\* inside touchDist, suction between touchDist and interactDist.
ContactForce(cfg, dist, touchDist, interactDist) ==
    IF dist < touchDist
    THEN LET overlap == touchDist - dist
             t == Div(overlap, touchDist)
         IN  Mul(repulsionStrength(cfg), Exp(Mul(t, 4 * SCALE)))
    ELSE LET zoneWidth == interactDist - touchDist
             distInZone == dist - touchDist
             t == Div(distInZone, zoneWidth)
         IN  -Mul(suctionStrength, Sin(Mul(t, PI)))

\* The gravity pull between two masses at squared centre distance distSq.
GravityForce(cfg, m1, m2, distSq) ==
    Div(Mul(Mul(GRAVITY_STRENGTH(cfg), m1), m2), distSq + softeningSq)

\* A variant of InteractDist without the surface-tension zone.
InteractDistTouch(r1, r2) == r1 + r2

\* The interaction range of a pair: (r1 + r2) * 1.3
InteractDist(r1, r2) == Mul(r1 + r2, Fx(13, 10))

\* The centre of a particle: s.x + s.size / 2, s.y + s.size / 2.
CentreX(s) == s.x + RoundDiv(s.size, 2)

CentreY(s) == s.y + RoundDiv(s.size, 2)

\* The sliding force of the pair (i, j): chirality * TANGENTIAL_FORCE *
\* (1 - dist / interactDist).
Slide(i, j, dist, interactDist) ==
    (IF (i + j) % 2 = 0 THEN 1 ELSE -1)
        * Mul(TANGENTIAL_FORCE, SCALE - Div(dist, interactDist))

\* A variant of ApplyGravity that moves the first particle by the pull as
\* well as accelerating it.
ApplyGravityAndMove(sts, i, j, nx, ny, forceG) ==
    [sts EXCEPT ![i].vx = @ - Div(Mul(nx, forceG), sts[i].size),
                ![i].vy = @ - Div(Mul(ny, forceG), sts[i].size),
                ![i].x = @ - Div(Mul(nx, forceG), sts[i].size),
                ![i].y = @ - Div(Mul(ny, forceG), sts[i].size),
                ![j].vx = @ + Div(Mul(nx, forceG), sts[j].size),
                ![j].vy = @ + Div(Mul(ny, forceG), sts[j].size)]

\* Gravity applied to the velocities of the pair: the first is pulled
\* against the normal (nx, ny), the second along it, each by forceG / mass.
ApplyGravity(sts, i, j, nx, ny, forceG) ==
    [sts EXCEPT ![i].vx = @ - Div(Mul(nx, forceG), sts[i].size),
                ![i].vy = @ - Div(Mul(ny, forceG), sts[i].size),
                ![j].vx = @ + Div(Mul(nx, forceG), sts[j].size),
                ![j].vy = @ + Div(Mul(ny, forceG), sts[j].size)]

\* A variant of ApplyContact that divides both impulses by the mass of the
\* first particle.
ApplyContactFirstMass(sts, i, j, nx, ny, force, slide) ==
    [sts EXCEPT
       ![i].vx = @ + Div(Mul(nx, force), sts[i].size) + Div(Mul(-ny, slide), sts[i].size),
       ![i].vy = @ + Div(Mul(ny, force), sts[i].size) + Div(Mul(nx, slide), sts[i].size),
       ![j].vx = @ - Div(Mul(nx, force), sts[i].size) - Div(Mul(-ny, slide), sts[i].size),
       ![j].vy = @ - Div(Mul(ny, force), sts[i].size) - Div(Mul(nx, slide), sts[i].size)]

\* The contact forces applied to the velocities of the pair: force along
\* the normal (nx, ny), slide along the tangent (-ny, nx).
ApplyContact(sts, i, j, nx, ny, force, slide) ==
    [sts EXCEPT
       ![i].vx = @ + Div(Mul(nx, force), sts[i].size) + Div(Mul(-ny, slide), sts[i].size),
       ![i].vy = @ + Div(Mul(ny, force), sts[i].size) + Div(Mul(nx, slide), sts[i].size),
       ![j].vx = @ - Div(Mul(nx, force), sts[j].size) - Div(Mul(-ny, slide), sts[j].size),
       ![j].vy = @ - Div(Mul(ny, force), sts[j].size) - Div(Mul(nx, slide), sts[j].size)]

\* The pair (i, j) with unit normal (nx, ny), centre distance dist, radii
\* r1 and r2: gravity always, contact forces within interactDist.
PairForces(sts, cfg, i, j, dist, nx, ny, forceG, r1, r2) ==
    IF dist < InteractDist(r1, r2)
    THEN ApplyContact(ApplyGravity(sts, i, j, nx, ny, forceG), i, j, nx, ny,
                      ContactForce(cfg, dist, r1 + r2, InteractDist(r1, r2)),
                      Slide(i, j, dist, InteractDist(r1, r2)))
    ELSE ApplyGravity(sts, i, j, nx, ny, forceG)

\* The pair (i, j) whose centres differ by (dx, dy) # (0, 0), dist apart.
PairAtDistance(sts, cfg, i, j, dx, dy, dist) ==
    PairForces(sts, cfg, i, j, dist, Div(dx, dist), Div(dy, dist),
               GravityForce(cfg, sts[i].size, sts[j].size,
                            Mul(dx, dx) + Mul(dy, dy)),
               RoundDiv(sts[i].size, 2), RoundDiv(sts[j].size, 2))

\* A variant of PairApart that treats a coincident pair as one unit apart
\* along x instead of skipping it.
PairApartNudged(sts, cfg, i, j, dx, dy) ==
    IF dx = 0 /\ dy = 0 THEN PairAtDistance(sts, cfg, i, j, 1, 0, 1)
    ELSE PairAtDistance(sts, cfg, i, j, dx, dy, Hypot(dx, dy))

\* if (distSq === 0) continue: the sum of two squares of doubles is zero
\* only when both differences are.
PairApart(sts, cfg, i, j, dx, dy) ==
    IF dx = 0 /\ dy = 0 THEN sts
    ELSE PairAtDistance(sts, cfg, i, j, dx, dy, Hypot(dx, dy))

\* 1. One iteration of the pair loop, for the pair (i, j), i < j.
ApplyPair(sts, cfg, i, j) ==
    PairApart(sts, cfg, i, j,
              CentreX(sts[i]) - CentreX(sts[j]),
              CentreY(sts[i]) - CentreY(sts[j]))

\* for (i ...) for (j = i + 1 ...): the pairs from (i, j) on, in loop order.
RECURSIVE PairLoop(_, _, _, _)
PairLoop(sts, cfg, i, j) ==
    IF i > Len(sts) THEN sts
    ELSE IF j > Len(sts) THEN PairLoop(sts, cfg, i + 1, i + 2)
    ELSE PairLoop(ApplyPair(sts, cfg, i, j), cfg, i, j + 1)

\* while (diff < -PI) diff += 2 PI; while (diff > PI) diff -= 2 PI
RECURSIVE RaiseAngle(_)
RaiseAngle(diff) == IF diff < -PI THEN RaiseAngle(diff + TWO_PI) ELSE diff

RECURSIVE LowerAngle(_)
LowerAngle(diff) == IF diff > PI THEN LowerAngle(diff - TWO_PI) ELSE diff

ShortestAngle(diff) == LowerAngle(RaiseAngle(diff))

\* 2. Wander steering; u is the frame's Math.random() for this particle.
\* The jittered wanderTheta turned 2% of the way to the heading.
WanderAngle(jittered, currentAngle) ==
    jittered + Mul(ShortestAngle(currentAngle - jittered), Fx(2, 100))

\* wanderTheta set to theta, and the wander force applied along it.
WanderForce(s, cfg, theta) ==
    [s EXCEPT
      !.wanderTheta = theta,
      !.vx = @ + Mul(Mul(Cos(theta), cfg.PHYSICS.ACCELERATION), Fx(5, 10)),
      !.vy = @ + Mul(Mul(Sin(theta), cfg.PHYSICS.ACCELERATION), Fx(5, 10))]

Wander(s, cfg, u) ==
    WanderForce(s, cfg,
        WanderAngle(s.wanderTheta + Mul(u - Fx(5, 10), cfg.PHYSICS.WANDER_JITTER),
                    Atan2(s.vy, s.vx)))

\* A variant of Friction that damps the size along with the velocity.
FrictionOnSize(s, cfg) ==
    [s EXCEPT !.vx = Mul(@, cfg.PHYSICS.FRICTION),
              !.vy = Mul(@, cfg.PHYSICS.FRICTION),
              !.size = Mul(@, cfg.PHYSICS.FRICTION)]

\* 3. Friction
Friction(s, cfg) ==
    [s EXCEPT !.vx = Mul(@, cfg.PHYSICS.FRICTION),
              !.vy = Mul(@, cfg.PHYSICS.FRICTION)]

\* A variant of LimitVelocity that truncates each component to the limit.
LimitVelocityBox(s, cfg) ==
    [s EXCEPT !.vx = Max(-cfg.PHYSICS.MAX_VELOCITY, Min(@, cfg.PHYSICS.MAX_VELOCITY)),
              !.vy = Max(-cfg.PHYSICS.MAX_VELOCITY, Min(@, cfg.PHYSICS.MAX_VELOCITY))]

\* The velocity of speed v scaled down to the limit max when above it.
LimitTo(s, max, v) ==
    IF v > max
    THEN [s EXCEPT !.vx = Mul(Div(s.vx, v), max), !.vy = Mul(Div(s.vy, v), max)]
    ELSE s

\* Limit Velocity
LimitVelocity(s, cfg) == LimitTo(s, cfg.PHYSICS.MAX_VELOCITY, Hypot(s.vx, s.vy))

\* 4. Update Position
Integrate(s) == [s EXCEPT !.x = @ + s.vx, !.y = @ + s.vy]

\* How far the particle is beyond the margin (distOut), 0 when it is not.
DistOut(s, w, h) ==
    LET minX == margin
        maxX == w * SCALE - margin - s.size
        minY == margin
        maxY == h * SCALE - margin - s.size
        outX == IF s.x < minX THEN minX - s.x
                ELSE IF s.x > maxX THEN s.x - maxX ELSE 0
        outY == IF s.y < minY THEN minY - s.y
                ELSE IF s.y > maxY THEN s.y - maxY ELSE 0
    IN  Max(Max(0, outX), outY)

\* needsCorrection: the position exceeds the margin on some axis.
NeedsCorrection(s, w, h) ==
    \/ s.x < margin
    \/ s.x > w * SCALE - margin - s.size
    \/ s.y < margin
    \/ s.y > h * SCALE - margin - s.size

\* A variant of Boundary that never corrects.
BoundaryNoSteer(s, w, h) == s

\* 5. Flow field boundary: steer wanderTheta to the centre and boost.
Boost(s, theta, boost) ==
    [s EXCEPT !.wanderTheta = theta,
              !.vx = @ + Mul(Cos(theta), boost),
              !.vy = @ + Mul(Sin(theta), boost)]

\* wanderTheta turned to targetAngle at turnRate 0.02 + ramp * 0.1, and the
\* boost ramp * 0.05 along it.
Steer(s, targetAngle, ramp) ==
    Boost(s,
          s.wanderTheta + Mul(ShortestAngle(targetAngle - s.wanderTheta),
                              Fx(2, 100) + Mul(ramp, Fx(1, 10))),
          Mul(ramp, Fx(5, 100)))

\* A variant of Boundary that also puts a particle found beyond the margin
\* back on it (a hard clamp).
BoundaryClamped(s, w, h) ==
    IF ~NeedsCorrection(s, w, h) THEN s
    ELSE [Steer(s,
                Atan2(RoundDiv(h * SCALE, 2) - (s.y + RoundDiv(s.size, 2)),
                      RoundDiv(w * SCALE, 2) - (s.x + RoundDiv(s.size, 2))),
                Min(Div(DistOut(s, w, h), 200 * SCALE), SCALE))
            EXCEPT !.x = Max(margin, Min(@, w * SCALE - margin - s.size)),
                   !.y = Max(margin, Min(@, h * SCALE - margin - s.size))]

Boundary(s, w, h) ==
    IF ~NeedsCorrection(s, w, h) THEN s
    ELSE Steer(s,
               Atan2(RoundDiv(h * SCALE, 2) - (s.y + RoundDiv(s.size, 2)),
                     RoundDiv(w * SCALE, 2) - (s.x + RoundDiv(s.size, 2))),
               Min(Div(DistOut(s, w, h), 200 * SCALE), SCALE))

\* A variant of StepOrb that moves the particle before limiting its speed.
StepOrbMoveFirst(s, cfg, w, h, u) ==
    Boundary(LimitVelocity(Integrate(Friction(Wander(s, cfg, u), cfg)), cfg), w, h)

\* A variant of StepOrb that applies friction before the wander force.
StepOrbFrictionFirst(s, cfg, w, h, u) ==
    Boundary(Integrate(LimitVelocity(Wander(Friction(s, cfg), cfg, u), cfg)), w, h)

\* The body of states.forEach for one particle, steps 2 to 5.
StepOrb(s, cfg, w, h, u) ==
    Boundary(Integrate(LimitVelocity(Friction(Wander(s, cfg, u), cfg), cfg)), w, h)

\* The particle states update leaves: drift, pair loop, then forEach.
\* The forEach draws Math.random() once per particle, in index order.
AfterDrift(sts, t) == [i \in DOMAIN sts |-> AmbientDrift(sts[i], i, t)]

\* The physics of one frame.  paired: the states after drift and pair
\* loop; stepped: after the forEach body has run on each; pairDv: the
\* velocity each particle gained in the pair loop.
FrameOf(drifted, paired, cfg, w, h, tape) ==
    [paired  |-> paired,
     stepped |-> [i \in DOMAIN paired |->
                    StepOrb(paired[i], cfg, w, h, Draw(tape, i - 1))],
     pairDv  |-> [i \in DOMAIN paired |->
                    <<paired[i].vx - drifted[i].vx,
                      paired[i].vy - drifted[i].vy>>]]

FrameAfterDrift(drifted, cfg, w, h, tape) ==
    FrameOf(drifted, PairLoop(drifted, cfg, 1, 2), cfg, w, h, tape)

Frame(sts, cfg, w, h, t, tape) ==
    FrameAfterDrift(AfterDrift(sts, t), cfg, w, h, tape)

(***************************************************************************)
(* update: the transforms written to the handles                           *)
(***************************************************************************)
\* A slot of a handle array is <<>> (null, undefined or past the end) or
\* <<t>>: an element whose style.transform is t (t = <<>>: not written).
Element == << <<>> >>

Slot(arr, i) == IF i \in DOMAIN arr THEN arr[i] ELSE <<>>

\* scale of the contrast layer for particle i
ContrastScale(vis, cfg, i, edgeMode) ==
    IF edgeMode THEN SCALE
    ELSE
      LET opacity == IF i \in DOMAIN vis THEN vis[i].opacity ELSE cfg.OPACITY.MIN
          minScale == Fx(8, 10)
          maxScale == Fx(92, 100)
          span == cfg.OPACITY.MAX - cfg.OPACITY.MIN
          ratio == Div(opacity - cfg.OPACITY.MIN, IF span = 0 THEN SCALE ELSE span)
      IN  minScale + Mul(ratio, maxScale - minScale)

\* A variant of WritesContrast without the null check.
WritesContrastUnguarded(slot) == TRUE

\* if (orbElementsContrast[i]) / if (orbElementsColor[i]): the write is made.
WritesContrast(slot) == slot # <<>>

WritesColor(slot) == slot # <<>>

\* A variant of BaseTransform that reads the first particle.
BaseTransformFirst(sts, i) == <<sts[1].x, sts[1].y>>

\* The translation of baseTransform for particle i
BaseTransform(sts, i) == <<sts[i].x, sts[i].y>>

\* el.style.transform = ... on a slot that holds no element is a TypeError,
\* which ends the forEach.  ThrowsAt(i): iteration i makes such a write.
ContrastThrows(contrast, i) ==
    WritesContrast(Slot(contrast, i)) /\ Slot(contrast, i) = <<>>

ColorThrows(color, i) ==
    WritesColor(Slot(color, i)) /\ Slot(color, i) = <<>>

ThrowsAt(contrast, color, i) == ContrastThrows(contrast, i) \/ ColorThrows(color, i)

\* The iterations of the forEach that run: all, or up to the first throw.
Reached(contrast, color, i) ==
    \A k \in 1..(i - 1) : ~ThrowsAt(contrast, color, k)

\* A variant of ContrastAfter that walks the handles instead of the
\* particles: a handle without a particle gets the origin.
ContrastAfterEveryHandle(contrast, color, sts, vis, cfg, edgeMode) ==
    [i \in DOMAIN contrast |->
        IF contrast[i] = <<>> THEN contrast[i]
        ELSE << (IF i \in DOMAIN sts THEN <<sts[i].x, sts[i].y>> ELSE <<0, 0>>)
                \o <<ContrastScale(vis, cfg, i, edgeMode)>> >>]

\* The handle arrays after the forEach, sts the states it leaves.
ContrastAfter(contrast, color, sts, vis, cfg, edgeMode) ==
    [i \in DOMAIN contrast |->
        IF /\ i \in DOMAIN sts
           /\ Reached(contrast, color, i)
           /\ WritesContrast(contrast[i])
           /\ ~ContrastThrows(contrast, i)
        THEN << BaseTransform(sts, i) \o <<ContrastScale(vis, cfg, i, edgeMode)>> >>
        ELSE contrast[i]]

ColorAfter(contrast, color, sts) ==
    [i \in DOMAIN color |->
        IF /\ i \in DOMAIN sts
           /\ Reached(contrast, color, i)
           /\ ~ContrastThrows(contrast, i)
           /\ WritesColor(color[i])
           /\ ~ColorThrows(color, i)
        THEN <<BaseTransform(sts, i)>>
        ELSE color[i]]

\* The record of an update call: its arguments, the handle arrays as the
\* call left them.
UpdateCall(contrast, color, edgeMode) ==
    [name |-> "update", edgeMode |-> edgeMode,
     orbElementsContrast |-> contrast, orbElementsColor |-> color]

\* What update does to states, time and the handles.
updateEffects(contrast, color, edgeMode, tape) ==
    /\ IF NoDimensions
       THEN /\ UNCHANGED <<states, time, pairDv>>
            /\ call' = UpdateCall(contrast, color, edgeMode)
            /\ threw' = FALSE
       ELSE /\ time' = time + TIME_STEP
            /\ \E frame \in {Frame(states, config, width, height, time', tape)} :
                   /\ states' =
                        [i \in DOMAIN states |->
                            IF Reached(contrast, color, i)
                            THEN frame.stepped[i] ELSE frame.paired[i]]
                   /\ pairDv' = frame.pairDv
            /\ call' = UpdateCall(
                   ContrastAfter(contrast, color, states', orbs, config, edgeMode),
                   ColorAfter(contrast, color, states'), edgeMode)
            /\ threw' = \E i \in DOMAIN states : ThrowsAt(contrast, color, i)

\* A variant of update that stores the computed scale in the visual entry.
updateRescalesOrbs(contrast, color, edgeMode, tape) ==
    /\ updateEffects(contrast, color, edgeMode, tape)
    /\ orbs' = [i \in DOMAIN orbs |->
                  [orbs[i] EXCEPT !.opacity = ContrastScale(orbs, config, i, edgeMode)]]
    /\ UNCHANGED <<page, width, height, config>>

update(contrast, color, edgeMode, tape) ==
    /\ updateEffects(contrast, color, edgeMode, tape)
    /\ UNCHANGED <<page, width, height, orbs, config>>

\* update is modelled for the first n frames: a call that would run a
\* later frame is not made.
WithinFrames(n) == NoDimensions \/ time < n * TIME_STEP

\* The handle arrays update is called with: one slot per particle of the
\* largest population, all present, one layer absent, or one slot absent.
AllPresent == [i \in 1..MaxOrbs |-> Element]

NonePresent == [i \in 1..MaxOrbs |-> <<>>]

MissingAt(k) == [i \in 1..MaxOrbs |-> IF i = k THEN <<>> ELSE Element]

\* The update calls made: handles, edgeMode and the frame's random draws.
UpdateCalls ==
    {<<AllPresent, AllPresent, FALSE, <<0, 0>> >>,
     <<NonePresent, AllPresent, FALSE, <<2, 1>> >>,
     <<MissingAt(1), MissingAt(MaxOrbs), TRUE, <<1, 1>> >>}

Next ==
    \/ \E p \in PartialChoices : setConfig(p)
    \/ \E d \in DimChoices : resize(d[1], d[2])
    \/ \E tape \in InitTapes : initOrbs(tape)
    \/ \E c \in UpdateCalls :
          WithinFrames(MaxFrames) /\ update(c[1], c[2], c[3], c[4])

Spec == Init /\ [][Next]_vars

(***************************************************************************)
(* Two particles placed by hand (spec.md, Scenarios B and C): a pair at    *)
(* rest at a chosen centre distance, stepped by update                     *)
(***************************************************************************)
\* Diameters of the placed particles (px).
PairSizes == {50, 150, 250}

\* Unit vectors from the second centre to the first (3-4-5 triangles, so
\* that the placed distance is exact).
PairDirections ==
    {<<SCALE, 0>>, <<6000, 8000>>, <<0, SCALE>>, <<-8000, 6000>>,
     <<-SCALE, 0>>, <<-6000, -8000>>, <<0, -SCALE>>, <<8000, -6000>>}

\* touchDist - 1: the pair overlaps by one pixel.
OverlapDist(size1, size2) == RoundDiv(size1, 2) + RoundDiv(size2, 2) - SCALE

\* 0.9 * interactDist: the pair is in the suction zone.
TensionDist(size1, size2) ==
    Mul(InteractDist(RoundDiv(size1, 2), RoundDiv(size2, 2)), Fx(9, 10))

PairDistances(size1, size2) ==
    {OverlapDist(size1, size2), TensionDist(size1, size2)}

\* An OrbState of the given size at rest, centred on (cx, cy).
Placed(size, cx, cy) ==
    [x |-> cx - RoundDiv(size, 2), y |-> cy - RoundDiv(size, 2),
     vx |-> 0, vy |-> 0, size |-> size, wanderTheta |-> 0]

PlacedPair(size1, size2, dir, dist) ==
    <<Placed(size1, 150 * SCALE, 100 * SCALE),
      Placed(size2, 150 * SCALE - Mul(dist, dir[1]),
                    100 * SCALE - Mul(dist, dir[2]))>>

PlacedVisuals(size1, size2) ==
    <<[size |-> size1, gradient |-> randomGradient(DEFAULT_CONFIG, 0, 0, 0),
       opacity |-> DEFAULT_CONFIG.OPACITY.MIN],
      [size |-> size2, gradient |-> randomGradient(DEFAULT_CONFIG, 0, 0, 0),
       opacity |-> DEFAULT_CONFIG.OPACITY.MAX]>>

\* The default configuration (default PHYSICS), its count and sizes set to
\* those of the placed pair.
PairConfig ==
    Spread(DEFAULT_CONFIG,
           [ORB_COUNT |-> 2, SIZE |-> [MIN |-> 50 * SCALE, MAX |-> MaxSize * SCALE]])

InitPair ==
    /\ width = 300
    /\ height = 200
    /\ config = PairConfig
    /\ time = 0
    /\ call = [name |-> "initOrbs"]
    /\ threw = FALSE
    /\ page = NewPage
    /\ pairDv = <<>>
    /\ \E a \in PairSizes, b \in PairSizes, dir \in PairDirections :
         \E dist \in PairDistances(a * SCALE, b * SCALE) :
            /\ states = PlacedPair(a * SCALE, b * SCALE, dir, dist)
            /\ orbs = PlacedVisuals(a * SCALE, b * SCALE)

NextPair == \E c \in UpdateCalls :
          WithinFrames(MaxFrames) /\ update(c[1], c[2], c[3], c[4])

SpecPair == InitPair /\ [][NextPair]_vars

(***************************************************************************)
(* Two particles placed at rest at distances around the interaction range, *)
(* under a configured REPULSION_RADIUS_FACTOR of 0.5 (the default) or 2    *)
(***************************************************************************)
FactorChoices == {Fx(5, 10), 2 * SCALE}

\* Centre distances as multiples of touchDist = r1 + r2.
FactorDistances(size1, size2) ==
    {Mul(RoundDiv(size1, 2) + RoundDiv(size2, 2), f) :
        f \in {Fx(4, 10), Fx(9, 10), Fx(117, 100), Fx(15, 10), Fx(18, 10)}}

FactorDirections == {<<SCALE, 0>>, <<6000, 8000>>}

FactorConfig(f) == [PairConfig EXCEPT !.PHYSICS.REPULSION_RADIUS_FACTOR = f]

InitFactor ==
    /\ width = 300
    /\ height = 200
    /\ time = 0
    /\ call = [name |-> "initOrbs"]
    /\ threw = FALSE
    /\ page = NewPage
    /\ pairDv = <<>>
    /\ \E f \in FactorChoices : config = FactorConfig(f)
    /\ \E a \in PairSizes, b \in PairSizes, dir \in FactorDirections :
         \E dist \in FactorDistances(a * SCALE, b * SCALE) :
            /\ states = PlacedPair(a * SCALE, b * SCALE, dir, dist)
            /\ orbs = PlacedVisuals(a * SCALE, b * SCALE)

NextFactor ==
    \E c \in UpdateCalls :
        WithinFrames(MaxFrames) /\ update(c[1], c[2], c[3], c[4])

SpecFactor == InitFactor /\ [][NextFactor]_vars

(***************************************************************************)
(* Three particles placed at rest, the centres of the first two            *)
(* coinciding, the third at a distance                                     *)
(***************************************************************************)
\* Diameters (px) of the coincident particles and of the third.
CoincidentSizes == {50, 150}

ThirdSizes == {50, 250}

\* Distance (px) of the third centre from the common centre.
ThirdDistances == {40, 120, 300}

PlacedTriple(size1, size2, size3, dir, dist) ==
    <<Placed(size1, 150 * SCALE, 100 * SCALE),
      Placed(size2, 150 * SCALE, 100 * SCALE),
      Placed(size3, 150 * SCALE - Mul(dist, dir[1]),
                    100 * SCALE - Mul(dist, dir[2]))>>

TripleVisuals(size1, size2, size3) ==
    PlacedVisuals(size1, size2)
    \o <<[size |-> size3, gradient |-> randomGradient(DEFAULT_CONFIG, 0, 0, 0),
          opacity |-> DEFAULT_CONFIG.OPACITY.MIN]>>

TripleConfig == [PairConfig EXCEPT !.ORB_COUNT = 3]

InitCoincident ==
    /\ width = 300
    /\ height = 200
    /\ config = TripleConfig
    /\ time = 0
    /\ call = [name |-> "initOrbs"]
    /\ threw = FALSE
    /\ page = NewPage
    /\ pairDv = <<>>
    /\ \E a \in CoincidentSizes, b \in CoincidentSizes, c \in ThirdSizes :
         \E dir \in FactorDirections, dist \in ThirdDistances :
            /\ states = PlacedTriple(a * SCALE, b * SCALE, c * SCALE,
                                     dir, dist * SCALE)
            /\ orbs = TripleVisuals(a * SCALE, b * SCALE, c * SCALE)

NextCoincident ==
    \E c \in UpdateCalls :
        WithinFrames(MaxFrames) /\ update(c[1], c[2], c[3], c[4])

SpecCoincident == InitCoincident /\ [][NextCoincident]_vars

(***************************************************************************)
(* setConfig alone, called with sparse overrides of every shape            *)
(***************************************************************************)
ConfigPartials ==
    {[ORB_COUNT |-> 1],
     [ORB_COUNT |-> 4],
     [ORB_COUNT |-> 2, SIZE |-> [MIN |-> 50 * SCALE, MAX |-> 100 * SCALE]],
     [SIZE |-> [MIN |-> 100 * SCALE, MAX |-> 250 * SCALE]],
     [SIZE |-> [MAX |-> 100 * SCALE]],
     [OPACITY |-> [MIN |-> Fx(2, 10), MAX |-> Fx(4, 10)]],
     [PHYSICS |-> LEGACY_PHYSICS],
     [PHYSICS |-> [DEFAULT_CONFIG.PHYSICS EXCEPT !.MAX_VELOCITY = 2 * SCALE]],
     [PHYSICS |-> [FRICTION |-> Fx(9, 10)]]}

NextConfig == \E p \in ConfigPartials : setConfig(p)

SpecConfig == Init /\ [][NextConfig]_vars

(***************************************************************************)
(* A one-particle system reconfigured while it runs: setConfig changes the *)
(* opacity range after the population was built                            *)
(***************************************************************************)
ReconfigPartials ==
    {[ORB_COUNT |-> 1, SIZE |-> [MIN |-> 50 * SCALE, MAX |-> MaxSize * SCALE]],
     [OPACITY |-> [MIN |-> Fx(2, 10), MAX |-> Fx(4, 10)]]}

ReconfigDims == {<<0, 200>>, <<300, 200>>}

NextReconfig ==
    \/ \E p \in ReconfigPartials : setConfig(p)
    \/ \E d \in ReconfigDims : resize(d[1], d[2])
    \/ \E tape \in InitTapes : initOrbs(tape)
    \/ \E c \in UpdateCalls :
          WithinFrames(MaxFrames) /\ update(c[1], c[2], c[3], c[4])

SpecReconfig == Init /\ [][NextReconfig]_vars

(***************************************************************************)
(* One particle placed far outside the margin (spec.md, P6) and stepped by *)
(* a caller that calls update once per frame                               *)
(***************************************************************************)
\* update is modelled for the first MaxFarFrames frames of the far particle.
MaxFarFrames == 15

\* How far past the edge of the viewport the particle is placed (px).
FarOffset == 1000

\* The centre it is placed at: 1000 px past the right edge of a 300 x 200
\* viewport.
FarCentres == {<<(300 + FarOffset) * SCALE, 50 * SCALE>>}

\* The velocity the particle is placed with: at rest.
FarVelocities == {<<0, 0>>}

\* The headings (wanderTheta) it is placed with: straight away from the
\* viewport, and along the edge away from the centre.
FarHeadings == {0, -HALF_PI}

FarConfig ==
    Spread(DEFAULT_CONFIG,
           [ORB_COUNT |-> 1, SIZE |-> [MIN |-> 50 * SCALE, MAX |-> MaxSize * SCALE]])

\* The update calls of the loop: both handles present, the frame's
\* Math.random() at either end of its range.
FarCalls ==
    {<<AllPresent, AllPresent, FALSE, <<0, 0>> >>,
     <<AllPresent, AllPresent, FALSE, <<2, 0>> >>}

InitFar ==
    /\ width = 300
    /\ height = 200
    /\ config = FarConfig
    /\ time = 0
    /\ call = [name |-> "initOrbs"]
    /\ threw = FALSE
    /\ page = NewPage
    /\ pairDv = <<>>
    /\ orbs = <<[size |-> 100 * SCALE,
                 gradient |-> randomGradient(DEFAULT_CONFIG, 0, 0, 0),
                 opacity |-> DEFAULT_CONFIG.OPACITY.MIN]>>
    /\ \E c \in FarCentres, v \in FarVelocities, th \in FarHeadings :
          states = <<[Placed(100 * SCALE, c[1], c[2])
                        EXCEPT !.vx = v[1], !.vy = v[2], !.wanderTheta = th]>>

NextFar ==
    \E c \in FarCalls :
        WithinFrames(MaxFarFrames) /\ update(c[1], c[2], c[3], c[4])

\* A step that runs a frame: the clock of the system advances.
FrameStep == WithinFrames(MaxFarFrames) /\ time' = time + TIME_STEP

\* update is called again frame after frame ("over repeated update
\* calls"): a frame that can run, runs.  The steps of NextFar are the steps that advance time, and NextFar is
\* enabled exactly when FrameStep is.
SpecFar == InitFar /\ [][NextFar]_vars /\ WF_time(FrameStep)

(***************************************************************************)
(* The two normalization loops of update, one iteration a step, on a       *)
(* one-particle system whose wanderTheta is held as a double               *)
(*                                                                         *)
(* A double holding the angle v is modelled as a floating-point number     *)
(* with the 53-bit significand of the source's doubles, holding v * SCALE: *)
(* sign, exponent exp >= 0 and significand hi * 2^26 + lo, the value being *)
(* significand * 2^exp.  Below 2^53 the exponent is 0 and the value is the *)
(* fixed-point integer of the rest of the model.                           *)
(***************************************************************************)
\* 2^26: one limb of the significand
Limb == 8192 * 8192

\* The fixed-point integer n as a double.
DFromInt(n) ==
    [neg |-> n < 0, exp |-> 0, hi |-> Abs(n) \div Limb, lo |-> Abs(n) % Limb]

\* The double is a fixed-point integer below 2^31.
DIsInt(x) == x.exp = 0 /\ x.hi < 32

DToInt(x) == (IF x.neg THEN -1 ELSE 1) * ((x.hi * Limb) + x.lo)

RECURSIVE Pow2(_)
Pow2(e) == IF e = 0 THEN 1 ELSE 2 * Pow2(e - 1)

\* a / 2^e for |a| < 2^30, rounded to the nearest integer, a tie to the
\* one that leaves the significand ending in lo even.
NearestQuot(a, e, lo) ==
    IF e >= 31 THEN 0
    ELSE IF 2 * (a % Pow2(e)) < Pow2(e) THEN a \div Pow2(e)
    ELSE IF 2 * (a % Pow2(e)) > Pow2(e) THEN (a \div Pow2(e)) + 1
    ELSE (a \div Pow2(e)) + ((lo + (a \div Pow2(e))) % 2)

\* The significand of x moved by d units in the last place.
Moved(x, d) ==
    [x EXCEPT !.hi = @ + ((x.lo + d) \div Limb), !.lo = (x.lo + d) % Limb]

\* x with the exponent one lower and the significand doubled: the same
\* value in the units of the binade below.
Finer(x) ==
    [x EXCEPT !.exp = @ - 1,
              !.hi = (2 * @) + ((2 * x.lo) \div Limb),
              !.lo = (2 * x.lo) % Limb]

\* x with the exponent one higher and the significand halved (rounded
\* down): the units of the binade above.
Halved(x) ==
    [x EXCEPT !.exp = @ + 1,
              !.hi = @ \div 2,
              !.lo = (x.lo + ((x.hi % 2) * Limb)) \div 2]

\* c signed along the magnitude of a double of the given sign.
Along(neg, c) == IF neg THEN -c ELSE c

\* The sum rounded in the binade of x (same), in the one below when it
\* falls below the binade of x (finer), in the one above when it reaches
\* 2^53 units of the last place (coarser).
RoundedSum(x, same, finer, coarser) ==
    IF x.exp > 0 /\ finer.hi < 2 * Limb THEN finer
    ELSE IF same.hi >= 2 * Limb THEN coarser
    ELSE same

\* x + c in doubles, c a fixed-point integer of magnitude below 2^17: exact
\* below 2^31; above, the exact sum is rounded to the 53 bits of the
\* significand, a tie to even.
DAddInt(x, c) ==
    IF DIsInt(x) THEN DFromInt(DToInt(x) + c)
    ELSE RoundedSum(x,
             Moved(x, NearestQuot(Along(x.neg, c), x.exp, x.lo)),
             IF x.exp = 0 THEN x
             ELSE Moved(Finer(x), NearestQuot(Along(x.neg, c), x.exp - 1, 0)),
             Moved(Halved(x),
                   NearestQuot(((x.lo % 2) * Pow2(x.exp)) + Along(x.neg, c),
                               x.exp + 1, Halved(x).lo)))

\* -x; the doubles modelled keep one zero.
DNeg(x) == IF x.hi = 0 /\ x.lo = 0 THEN x ELSE [x EXCEPT !.neg = ~@]

\* c - x in doubles.
DSubFrom(c, x) == DNeg(DAddInt(x, -c))

\* x < c and x > c for a fixed-point integer c of magnitude below 2^17.
DLess(x, c) == IF DIsInt(x) THEN DToInt(x) < c ELSE x.neg

DGreater(x, c) == IF DIsInt(x) THEN DToInt(x) > c ELSE ~x.neg

\* update is modelled for the first MaxLoopFrames frames of the particle.
MaxLoopFrames == 2

\* The headings (wanderTheta, rad) the particle is placed with: within one
\* turn, several turns away on either side (7, 100, -50 rad), and far
\* beyond the integers a double resolves (1e17 and -2^60 rad).
TurnedHeadings == {DFromInt(h * SCALE) : h \in {0, 7, 100, -50}}

HugeHeadings ==
    {[neg |-> FALSE, exp |-> 17, hi |-> 113686837, lo |-> 48426832],
     [neg |-> TRUE, exp |-> 21, hi |-> 81920000, lo |-> 0]}

\* The centres it is placed at: inside a 300 x 200 viewport, and 300 px
\* past its right edge.
LoopCentres == {<<150 * SCALE, 100 * SCALE>>, <<600 * SCALE, 100 * SCALE>>}

InitLoop ==
    /\ width = 300
    /\ height = 200
    /\ config = FarConfig
    /\ time = 0
    /\ call = [name |-> "initOrbs"]
    /\ threw = FALSE
    /\ page = NewPage
    /\ pairDv = <<>>
    /\ orbs = <<[size |-> 100 * SCALE,
                 gradient |-> randomGradient(DEFAULT_CONFIG, 0, 0, 0),
                 opacity |-> DEFAULT_CONFIG.OPACITY.MIN]>>
    /\ \E c \in LoopCentres, th \in TurnedHeadings \cup HugeHeadings :
          states = <<[Placed(100 * SCALE, c[1], c[2]) EXCEPT !.wanderTheta = th]>>

\* An update call that has not returned: its arguments, the loop it is at
\* ("wander": lines 330-332, "boundary": lines 398-400; "moved": between
\* the two, at line 353), the phase of that loop ("raise": the first
\* while, "lower": the second, "exited") and diff.
InUpdate(c, at, phase, diff) ==
    [name |-> "update.running", args |-> c,
     at |-> at, phase |-> phase, diff |-> diff]

UpdateRunning == call.name = "update.running"

\* state.wanderTheta += (Math.random() - 0.5) * WANDER_JITTER (line 324)
Jittered(s, cfg, u) ==
    [s EXCEPT !.wanderTheta =
        DAddInt(@, Mul(u - Fx(5, 10), cfg.PHYSICS.WANDER_JITTER))]

\* update is entered with dimensions set (lines 132-330): the clock
\* advances, the particle drifts (a single particle has no pair), its
\* heading is jittered, and diff = currentAngle - wanderTheta.
updateEnters(c) ==
    /\ ~UpdateRunning
    /\ ~NoDimensions
    /\ Len(states) = 1
    /\ time' = time + TIME_STEP
    /\ states' = <<Jittered(AmbientDrift(states[1], 1, time'), config,
                            Draw(c[4], 0))>>
    /\ pairDv' = << <<0, 0>> >>
    /\ call' = InUpdate(c, "wander", "raise",
                        DSubFrom(Atan2(states'[1].vy, states'[1].vx),
                                 states'[1].wanderTheta))
    /\ UNCHANGED <<page, width, height, orbs, config, threw>>

\* while (diff < -Math.PI) diff += Math.PI * 2: one iteration, and the exit.
raiseStep ==
    /\ UpdateRunning
    /\ call.phase = "raise"
    /\ DLess(call.diff, -PI)
    /\ call' = [call EXCEPT !.diff = DAddInt(@, TWO_PI)]
    /\ UNCHANGED <<page, width, height, states, orbs, config, time, threw, pairDv>>

raiseExit ==
    /\ UpdateRunning
    /\ call.phase = "raise"
    /\ ~DLess(call.diff, -PI)
    /\ call' = [call EXCEPT !.phase = "lower"]
    /\ UNCHANGED <<page, width, height, states, orbs, config, time, threw, pairDv>>

\* while (diff > Math.PI) diff -= Math.PI * 2: one iteration, and the exit.
lowerStep ==
    /\ UpdateRunning
    /\ call.phase = "lower"
    /\ DGreater(call.diff, PI)
    /\ call' = [call EXCEPT !.diff = DAddInt(@, -TWO_PI)]
    /\ UNCHANGED <<page, width, height, states, orbs, config, time, threw, pairDv>>

lowerExit ==
    /\ UpdateRunning
    /\ call.phase = "lower"
    /\ ~DGreater(call.diff, PI)
    /\ call' = [call EXCEPT !.phase = "exited"]
    /\ UNCHANGED <<page, width, height, states, orbs, config, time, threw, pairDv>>

\* Line 333 after the wander loop: the heading turned 2% of diff.
TurnedBy(s, diff) == DToInt(s.wanderTheta) + Mul(diff, Fx(2, 100))

\* Lines 333-352: the wander force along the turned heading, friction, the
\* speed limit and the position update.
wanderApplied ==
    /\ UpdateRunning
    /\ call.at = "wander"
    /\ call.phase = "exited"
    /\ \E theta \in {TurnedBy(states[1], DToInt(call.diff))} :
       \E pushed \in {WanderForce(states[1], config, theta)} :
       \E limited \in {LimitVelocity(Friction(pushed, config), config)} :
          states' = <<[Integrate(limited) EXCEPT !.wanderTheta = DFromInt(@)]>>
    /\ call' = [call EXCEPT !.at = "moved"]
    /\ UNCHANGED <<page, width, height, orbs, config, time, threw, pairDv>>

\* The particle with its heading as a fixed-point integer.
Fixed(s) == [s EXCEPT !.wanderTheta = DToInt(@)]

\* Lines 386-398: the particle is beyond the margin; the boundary loop is
\* entered with diff = targetAngle - wanderTheta.
boundaryEnters ==
    /\ UpdateRunning
    /\ call.at = "moved"
    /\ NeedsCorrection(states[1], width, height)
    /\ \E targetAngle \in
            {Atan2(RoundDiv(height * SCALE, 2) - CentreY(states[1]),
                   RoundDiv(width * SCALE, 2) - CentreX(states[1]))} :
          call' = [call EXCEPT
                     !.at = "boundary",
                     !.phase = "raise",
                     !.diff = DSubFrom(targetAngle, states[1].wanderTheta)]
    /\ UNCHANGED <<page, width, height, states, orbs, config, time, threw, pairDv>>

\* Lines 395-410 after the boundary loop: the heading turned by diff *
\* turnRate and the boost along it; nothing for a particle within the
\* margin.
SteeredBy(s, diff, ramp) ==
    Boost(s, s.wanderTheta + Mul(diff, Fx(2, 100) + Mul(ramp, Fx(1, 10))),
          Mul(ramp, Fx(5, 100)))

\* Lines 402-434: the particle is steered if the boundary loop ran, the
\* transforms are written and update returns.
updateReturns ==
    /\ UpdateRunning
    /\ \/ call.at = "moved" /\ ~NeedsCorrection(states[1], width, height)
       \/ call.at = "boundary" /\ call.phase = "exited"
    /\ \E ramp \in {Min(Div(DistOut(states[1], width, height), 200 * SCALE),
                        SCALE)} :
       \E steered \in {IF call.at = "moved" THEN Fixed(states[1])
                       ELSE SteeredBy(Fixed(states[1]), DToInt(call.diff), ramp)} :
          states' = <<[steered EXCEPT !.wanderTheta = DFromInt(@)]>>
    /\ call' = UpdateCall(
           ContrastAfter(call.args[1], call.args[2], states', orbs, config,
                         call.args[3]),
           ColorAfter(call.args[1], call.args[2], states'), call.args[3])
    /\ UNCHANGED <<page, width, height, orbs, config, time, threw, pairDv>>

NextLoop ==
    \/ \E c \in FarCalls : WithinFrames(MaxLoopFrames) /\ updateEnters(c)
    \/ raiseStep
    \/ raiseExit
    \/ lowerStep
    \/ lowerExit
    \/ wanderApplied
    \/ boundaryEnters
    \/ updateReturns

\* An iteration or an exit of a loop of the call in progress.
LoopStep == raiseStep \/ raiseExit \/ lowerStep \/ lowerExit

\* The call runs on: while it is in a loop, an iteration or an exit that
\* can be taken is taken.
SpecLoop == InitLoop /\ [][NextLoop]_vars /\ WF_vars(LoopStep)

(***************************************************************************)
(* Two particles placed at rest at distances around the interaction range, *)
(* under a configured GRAVITY_STRENGTH of 0 or 1.5 (the default) and a     *)
(* configured REPULSION_STRENGTH of 0 or 0.5 (the default)                 *)
(***************************************************************************)
GravityChoices == {0, Fx(15, 10)}

RepulsionChoices == {0, Fx(5, 10)}

StrengthConfig(g, r) ==
    [PairConfig EXCEPT !.PHYSICS.GRAVITY_STRENGTH = g,
                       !.PHYSICS.REPULSION_STRENGTH = r]

InitStrength ==
    /\ width = 300
    /\ height = 200
    /\ time = 0
    /\ call = [name |-> "initOrbs"]
    /\ threw = FALSE
    /\ page = NewPage
    /\ pairDv = <<>>
    /\ \E g \in GravityChoices, r \in RepulsionChoices :
          config = StrengthConfig(g, r)
    /\ \E a \in PairSizes, b \in PairSizes, dir \in FactorDirections :
         \E dist \in FactorDistances(a * SCALE, b * SCALE) :
            /\ states = PlacedPair(a * SCALE, b * SCALE, dir, dist)
            /\ orbs = PlacedVisuals(a * SCALE, b * SCALE)

NextStrength ==
    \E c \in UpdateCalls :
        WithinFrames(MaxFrames) /\ update(c[1], c[2], c[3], c[4])

SpecStrength == InitStrength /\ [][NextStrength]_vars

(***************************************************************************)
(* The page (+page.svelte): appearance settings kept in local storage,     *)
(* file selection, and the generate calls with their workers.  The editor  *)
(* inputs (output size, format, quality) are left out: no modelled step    *)
(* reads them.                                                             *)
(***************************************************************************)
\* The fields of the simulation, which no handler of the page writes.
OrbSystemVars == <<width, height, states, orbs, config, time, call, threw, pairDv>>

\* The image files the user picks.
Files == {"a.png", "b.png"}

\* What a drop can carry besides: a file that is not an image.
Dropped == Files \cup {"notes.txt"}

\* file.type.startsWith("image/")
IsImage(file) == file \in Files

\* window.innerWidth (px): a phone and a desktop.
Viewports == {400, 1200}

\* Positions of the three range inputs (lines 369-413).
OrbCountSteps == {1, 6, 15}

SizeMinSteps == {50, 200, 400}

SizeMaxSteps == {200, 500, 800}

\* The page makes at most MaxJobs generate calls.
MaxJobs == 2

\* The settings object of the $effect (lines 108-113).
Settings(p) ==
    [highContrastEdges |-> p.highContrastEdges,
     bgOrbCount        |-> p.bgOrbCount,
     bgSizeMin         |-> p.bgSizeMin,
     bgSizeMax         |-> p.bgSizeMax]

\* $effect (lines 106-117): once the settings are loaded, every change of
\* them is written to local storage.
Saved(p) ==
    IF p.settingsLoaded THEN [p EXCEPT !.storage = <<Settings(p)>>] ELSE p

\* Load Settings from LocalStorage (lines 55-69); the entry, written by
\* the $effect, has all four fields.
Loaded(p) ==
    IF p.storage = <<>> THEN p
    ELSE [p EXCEPT !.highContrastEdges = p.storage[1].highContrastEdges,
                   !.bgOrbCount = p.storage[1].bgOrbCount,
                   !.bgSizeMin = p.storage[1].bgSizeMin,
                   !.bgSizeMax = p.storage[1].bgSizeMax]

\* adjustForMobile (lines 71-87) in a window w px wide.
adjustForMobile(p, w) ==
    IF w < 600
    THEN [p EXCEPT !.bgOrbCount = Min(@, 4),
                   !.bgSizeMin = Min(@, 100),
                   !.bgSizeMax = Min(@, 250)]
    ELSE p

\* onMount (lines 50-104) in a window w px wide.
onMount(w) ==
    /\ ~page.settingsLoaded
    /\ page' = Saved([adjustForMobile(Loaded(page), w)
                        EXCEPT !.settingsLoaded = TRUE])
    /\ UNCHANGED OrbSystemVars

\* import("cropperjs").then(...) (lines 51-53)
cropperImported ==
    /\ page.settingsLoaded
    /\ ~page.CropperClass
    /\ page' = [page EXCEPT !.CropperClass = TRUE]
    /\ UNCHANGED OrbSystemVars

\* onResize and its timer (lines 93-98): the window is now w px wide.
onResize(w) ==
    /\ page.settingsLoaded
    /\ page' = Saved(adjustForMobile(page, w))
    /\ UNCHANGED OrbSystemVars

\* The page is loaded anew: every field starts over, local storage stays.
pageReloaded ==
    /\ page.settingsLoaded
    /\ page' = [NewPage EXCEPT !.storage = page.storage]
    /\ UNCHANGED OrbSystemVars

\* The settings button and the close controls of the dialog (lines
\* 333-355).
showSettingsSet(shown) ==
    /\ page.settingsLoaded
    /\ page.showSettings # shown
    /\ page' = [page EXCEPT !.showSettings = shown]
    /\ UNCHANGED OrbSystemVars

\* bind:checked={highContrastEdges} (line 365)
highContrastEdgesBound ==
    /\ page.showSettings
    /\ page' = Saved([page EXCEPT !.highContrastEdges = ~@])
    /\ UNCHANGED OrbSystemVars

\* bind:value={bgOrbCount} (lines 375-382)
bgOrbCountBound(v) ==
    /\ page.showSettings
    /\ page' = Saved([page EXCEPT !.bgOrbCount = v])
    /\ UNCHANGED OrbSystemVars

\* bind:value={bgSizeMin} (lines 390-397): min 50, max 400
bgSizeMinBound(v) ==
    /\ page.showSettings
    /\ page' = Saved([page EXCEPT !.bgSizeMin = v])
    /\ UNCHANGED OrbSystemVars

\* bind:value={bgSizeMax} (lines 405-412): min 200, max 800
bgSizeMaxBound(v) ==
    /\ page.showSettings
    /\ page' = Saved([page EXCEPT !.bgSizeMax = v])
    /\ UNCHANGED OrbSystemVars

NextSettings ==
    \/ \E w \in Viewports : onMount(w)
    \/ \E w \in Viewports : onResize(w)
    \/ pageReloaded
    \/ \E shown \in BOOLEAN : showSettingsSet(shown)
    \/ highContrastEdgesBound
    \/ \E v \in OrbCountSteps : bgOrbCountBound(v)
    \/ \E v \in SizeMinSteps : bgSizeMinBound(v)
    \/ \E v \in SizeMaxSteps : bgSizeMaxBound(v)

SpecSettings == Init /\ [][NextSettings]_vars

\* A generate call in flight: its kind, the file passed to the worker, the
\* state of the awaited promise, and whether its worker was terminated.
Job(kind, file) ==
    [kind |-> kind, file |-> file, state |-> "pending", terminated |-> FALSE]

\* An entry of results; file: the file its blob was made from (the url and
\* the size of the entry are those of the blob).
Result(label, file) == [label |-> label, file |-> file]

\* standardResults (lines 286-302)
StandardResults(file) ==
    <<Result("Large (1600px)", file), Result("Medium (800px)", file),
      Result("Square (400px)", file)>>

\* generateStandard up to its await (lines 270-284).
StandardStarted(p) ==
    IF p.selectedFile = NoFile THEN p
    ELSE [p EXCEPT !.isProcessing = TRUE,
                   !.jobs = Append(@, Job("standard", p.selectedFile))]

\* generateCustom up to its await (lines 227-254).
CustomStarted(p) ==
    IF p.selectedFile = NoFile \/ ~p.cropper THEN p
    ELSE [p EXCEPT !.isProcessing = TRUE,
                   !.jobs = Append(@, Job("custom", p.selectedFile))]

\* The file is taken in (lines 125-136, 166-177): the results are
\* emptied, the editor closed and the standard set generated.
Selected(p, file) ==
    StandardStarted([p EXCEPT !.selectedFile = file,
                              !.previewUrl = file,
                              !.results = <<>>,
                              !.showCustomEditor = FALSE])

\* The file input and the drop zone are rendered while no file is
\* selected (line 421).
handleFileSelect(file) ==
    /\ page.settingsLoaded
    /\ page.selectedFile = NoFile
    /\ Len(page.jobs) < MaxJobs
    /\ page' = IF file = NoFile THEN page ELSE Selected(page, file)
    /\ UNCHANGED OrbSystemVars

\* handleDragEnter, handleDragOver (true) and handleDragLeave (false)
handleDrag(over) ==
    /\ page.settingsLoaded
    /\ page.selectedFile = NoFile
    /\ page' = [page EXCEPT !.isDragging = over]
    /\ UNCHANGED OrbSystemVars

handleDrop(file) ==
    /\ page.settingsLoaded
    /\ page.selectedFile = NoFile
    /\ Len(page.jobs) < MaxJobs
    /\ page' = IF file # NoFile /\ IsImage(file)
               THEN Selected([page EXCEPT !.isDragging = FALSE], file)
               ELSE [page EXCEPT !.isDragging = FALSE]
    /\ UNCHANGED OrbSystemVars

\* The buttons that show and close the editor (lines 581-586, 567-572).
showCustomEditorSet(shown) ==
    /\ page.selectedFile # NoFile
    /\ page.showCustomEditor # shown
    /\ page' = [page EXCEPT !.showCustomEditor = shown]
    /\ UNCHANGED OrbSystemVars

\* The close-file button (line 589), rendered beside the results while the
\* editor is closed.
closeFile ==
    /\ page.selectedFile # NoFile
    /\ ~page.showCustomEditor
    /\ page' = [page EXCEPT !.selectedFile = NoFile]
    /\ UNCHANGED OrbSystemVars

\* setupCropper (lines 192-202), on the load of the editor's image.
setupCropper ==
    /\ page.selectedFile # NoFile
    /\ page.showCustomEditor
    /\ page' = [page EXCEPT !.cropper = @ \/ page.CropperClass]
    /\ UNCHANGED OrbSystemVars

\* The two generate buttons of the editor, disabled while isProcessing
\* (lines 553-566).
generateCustom ==
    /\ page.selectedFile # NoFile
    /\ page.showCustomEditor
    /\ ~page.isProcessing
    /\ Len(page.jobs) < MaxJobs
    /\ page' = CustomStarted(page)
    /\ UNCHANGED OrbSystemVars

generateStandard ==
    /\ page.selectedFile # NoFile
    /\ page.showCustomEditor
    /\ ~page.isProcessing
    /\ Len(page.jobs) < MaxJobs
    /\ page' = StandardStarted(page)
    /\ UNCHANGED OrbSystemVars

\* Call j of the page is of the given kind and its promise is pending.
Awaited(j, kind) ==
    page.jobs[j].kind = kind /\ page.jobs[j].state = "pending"

\* generateStandard after its await resolves (lines 286-305, 309-311).
standardResolves(j) ==
    /\ Awaited(j, "standard")
    /\ page' = [page EXCEPT
                  !.results = @ \o StandardResults(page.jobs[j].file),
                  !.jobs[j].state = "resolved",
                  !.jobs[j].terminated = TRUE,
                  !.isProcessing = FALSE]
    /\ UNCHANGED OrbSystemVars

\* generateStandard after its await rejects (lines 306-311).
standardRejects(j) ==
    /\ Awaited(j, "standard")
    /\ page' = [page EXCEPT !.jobs[j].state = "rejected",
                            !.isProcessing = FALSE]
    /\ UNCHANGED OrbSystemVars

\* generateCustom after its await resolves (lines 255-261, 265-267).
customResolves(j) ==
    /\ Awaited(j, "custom")
    /\ page' = [page EXCEPT
                  !.results = <<Result("Custom", page.jobs[j].file)>> \o @,
                  !.jobs[j].state = "resolved",
                  !.jobs[j].terminated = TRUE,
                  !.isProcessing = FALSE]
    /\ UNCHANGED OrbSystemVars

\* generateCustom after its await rejects (lines 262-267).
customRejects(j) ==
    /\ Awaited(j, "custom")
    /\ page' = [page EXCEPT !.jobs[j].state = "rejected",
                            !.isProcessing = FALSE]
    /\ UNCHANGED OrbSystemVars

\* A pending processing call settles.
Settles ==
    \E j \in DOMAIN page.jobs :
        \/ standardResolves(j)
        \/ standardRejects(j)
        \/ customResolves(j)
        \/ customRejects(j)

NextFiles ==
    \/ \E w \in Viewports : onMount(w)
    \/ cropperImported
    \/ \E file \in Files \cup {NoFile} : handleFileSelect(file)
    \/ \E over \in BOOLEAN : handleDrag(over)
    \/ \E file \in Dropped \cup {NoFile} : handleDrop(file)
    \/ \E shown \in BOOLEAN : showCustomEditorSet(shown)
    \/ closeFile
    \/ setupCropper
    \/ generateCustom
    \/ generateStandard
    \/ \E j \in DOMAIN page.jobs : standardResolves(j)
    \/ \E j \in DOMAIN page.jobs : standardRejects(j)
    \/ \E j \in DOMAIN page.jobs : customResolves(j)
    \/ \E j \in DOMAIN page.jobs : customRejects(j)

\* The worker answers every call: a pending promise settles.
SpecFiles == Init /\ [][NextFiles]_vars /\ WF_vars(Settles)

(***************************************************************************)
(* Properties                                                              *)
(***************************************************************************)
\* width or height is 0: no viewport dimensions are recorded.
ZeroDimension == width = 0 \/ height = 0

\* Running: dimensions known and particles populated; else Uninitialized.
Running == ~ZeroDimension /\ states # <<>>

\* The last call was an update that ran a frame.
FrameRan == call.name = "update" /\ ~ZeroDimension

Speed(s) == Hypot(s.vx, s.vy)

\* Rounding tolerance on a speed (0.0003 px/frame).
SpeedTolerance == Fx(3, 10000)

\* The largest boost the boundary step adds (ramp 1 * 0.05).
MaxBoost == Fx(5, 100)

\* The particle is beyond the margin around the viewport.
BeyondMargin(s) ==
    \/ s.x < -100 * SCALE
    \/ s.x > width * SCALE + 100 * SCALE - s.size
    \/ s.y < -100 * SCALE
    \/ s.y > height * SCALE + 100 * SCALE - s.size

\* C1 (as amended): after any initOrbs call made while both dimensions are
\* non-zero, the number of particle states and the number of visual entries
\* both equal the configured orb count.
C1_PopulationAfterEffectiveInit ==
    (call.name = "initOrbs" /\ ~ZeroDimension)
        => (Len(states) = config.ORB_COUNT /\ Len(orbs) = config.ORB_COUNT)

\* C1 witness: an initOrbs call with dimensions has built the largest
\* population, under an orb count that setConfig changed from the default.
C1_Witness ==
    /\ call.name = "initOrbs"
    /\ ~ZeroDimension
    /\ config.ORB_COUNT = MaxOrbs
    /\ Len(states) = MaxOrbs
    /\ Len(orbs) = MaxOrbs

\* C1 as stated: after any initOrbs call, states.length = orbs.length =
\* config.ORB_COUNT.
C1_PopulationAfterAnyInit ==
    call.name = "initOrbs"
        => (Len(states) = config.ORB_COUNT /\ Len(orbs) = config.ORB_COUNT)

\* C2 (as amended): at the end of every update call that ran a frame, a
\* particle within the margin has speed at most MAX_VELOCITY, and a particle
\* beyond the margin has speed at most MAX_VELOCITY plus the boundary boost
\* of at most 0.05 (each plus the rounding tolerance).
C2_SpeedWithinLimitPlusBoost ==
    FrameRan =>
        \A i \in DOMAIN states :
            Speed(states[i]) <=
                config.PHYSICS.MAX_VELOCITY + SpeedTolerance
                + (IF BeyondMargin(states[i]) THEN MaxBoost ELSE 0)

\* C2 witness: an update has left one particle beyond the margin faster than
\* MAX_VELOCITY (clamped, then boosted).
C2_Witness ==
    /\ FrameRan
    /\ \E i \in DOMAIN states :
          /\ BeyondMargin(states[i])
          /\ Speed(states[i]) > config.PHYSICS.MAX_VELOCITY + SpeedTolerance

\* C2 as stated: at the end of every update call every particle's speed is
\* at most MAX_VELOCITY plus the rounding tolerance.
C2_SpeedWithinLimit ==
    FrameRan =>
        \A i \in DOMAIN states :
            Speed(states[i]) <= config.PHYSICS.MAX_VELOCITY + SpeedTolerance

\* C3: while width or height is 0, a call of update or initOrbs raises no
\* error and leaves states and orbs (and so every particle state) unchanged.
C3_NoOpWithoutDimensions ==
    [][(ZeroDimension /\ call'.name \in {"update", "initOrbs"})
          => (states' = states /\ orbs' = orbs /\ ~threw')]_vars

\* C3 witness: update has been called on a populated system whose viewport
\* has exactly one dimension at 0, and the particles are still there.
C3_Witness ==
    /\ call.name = "update"
    /\ width = 0
    /\ height # 0
    /\ states # <<>>
    /\ ~threw

\* C4 (as amended): a step from Uninitialized to Running is either an
\* initOrbs call made with both dimensions non-zero, or a resize call that
\* restores non-zero dimensions to a system that still holds particles;
\* setConfig and update never make that step.
C4_RunningOnlyByInitOrRestoringResize ==
    [][(~Running /\ Running')
          => \/ call'.name = "initOrbs" /\ ~ZeroDimension
             \/ call'.name = "resize" /\ ZeroDimension /\ states # <<>>]_vars

\* C4 witness: a resize call has just set non-zero dimensions on a system
\* that holds particles and has not run a frame since it was populated.
C4_Witness ==
    /\ Running
    /\ call.name = "resize"
    /\ time = 0

\* C4 as stated: a step from Uninitialized to Running is an initOrbs call.
C4_RunningOnlyByInit ==
    [][(~Running /\ Running') => call'.name = "initOrbs"]_vars

\* The pair of a two-particle population: vector from the second centre to
\* the first, and the centre distance.
PairDx(sts) == (sts[1].x + RoundDiv(sts[1].size, 2)) - (sts[2].x + RoundDiv(sts[2].size, 2))

PairDy(sts) == (sts[1].y + RoundDiv(sts[1].size, 2)) - (sts[2].y + RoundDiv(sts[2].size, 2))

CentreDist(sts) == Hypot(PairDx(sts), PairDy(sts))

TouchDist(sts) == RoundDiv(sts[1].size, 2) + RoundDiv(sts[2].size, 2)

\* Placement tolerance on a centre distance (0.001 px).
DistTolerance == Fx(1, 1000)

AtRest(sts) == \A i \in DOMAIN sts : sts[i].vx = 0 /\ sts[i].vy = 0

\* Two particles at rest whose centres are touchDist - 1 apart.
OverlappingByOne(sts) ==
    /\ Len(sts) = 2
    /\ AtRest(sts)
    /\ Abs(CentreDist(sts) - (TouchDist(sts) - SCALE)) <= DistTolerance

\* Two particles at rest whose centres are 0.9 * 1.3 * touchDist apart.
InTensionZone(sts) ==
    /\ Len(sts) = 2
    /\ AtRest(sts)
    /\ Abs(CentreDist(sts) - Mul(Mul(TouchDist(sts), Fx(13, 10)), Fx(9, 10)))
           <= DistTolerance

\* The change the pair loop made to the velocity of particle 1 relative to
\* particle 2, projected on the vector from centre 2 to centre 1 of sts:
\* positive when the pair force pushes the two apart, negative when it
\* pulls them together.
RadialPush(sts, dv) ==
    Mul(dv[1][1] - dv[2][1], PairDx(sts)) + Mul(dv[1][2] - dv[2][2], PairDy(sts))

\* C5 as stated: one update call on two particles at rest that overlap by
\* one pixel, under the default physics, moves their centres apart or at
\* least pushes them apart along the line joining the centres.
C5_OverlapPushedApart ==
    [][(OverlappingByOne(states) /\ call'.name = "update")
          => \/ CentreDist(states') > CentreDist(states)
             \/ RadialPush(states, pairDv') > 0]_vars

\* C6 (as amended): for two particles at rest at 0.9 * interactDist, the
\* net pairwise force of one update call along the line joining the
\* centres is attractive.
C6_TensionZoneAttracts ==
    [][(InTensionZone(states) /\ call'.name = "update")
          => RadialPush(states, pairDv') < 0]_vars

\* C6 witness: an update has run on a pair whose centres are still within
\* a pixel of 0.9 * interactDist, and its pair force pulled them together
\* while the centre distance is no smaller than the placed one.
C6_Witness ==
    /\ FrameRan
    /\ time = TIME_STEP
    /\ Len(states) = 2
    /\ RadialPush(states, pairDv) < 0
    /\ CentreDist(states) >= Mul(Mul(TouchDist(states), Fx(13, 10)), Fx(9, 10))
    /\ CentreDist(states) < Mul(Mul(TouchDist(states), Fx(13, 10)), Fx(9, 10)) + SCALE

\* C6 as stated: one update call on two particles at rest at
\* 0.9 * interactDist moves their centres closer together.
C6_TensionZoneMovesCloser ==
    [][(InTensionZone(states) /\ call'.name = "update")
          => CentreDist(states') < CentreDist(states)]_vars

\* C7: an update call leaves orbs as it was: no entry is replaced,
\* reordered or modified.
C7_UpdateKeepsOrbs ==
    [][(call'.name = "update") => orbs' = orbs]_vars

\* C7 witness: two frames have run on a populated system.
C7_Witness ==
    /\ FrameRan
    /\ time = 2 * TIME_STEP
    /\ orbs # <<>>
    /\ Len(orbs) = Len(states)

\* The translation a written handle slot holds.
Translation(slot) == <<slot[1][1], slot[1][2]>>

Written(slot) == slot # <<>> /\ slot[1] # <<>>

\* C8: after an update call that ran a frame, every handle of either layer
\* that holds a transform holds, at index i, the position of states[i] as
\* the call left it; handles past the last particle hold none.
C8_HandleHoldsOwnPosition ==
    FrameRan =>
        \A i \in 1..MaxOrbs :
            /\ Written(Slot(call.orbElementsContrast, i))
                 => /\ i \in DOMAIN states
                    /\ Translation(call.orbElementsContrast[i])
                         = <<states[i].x, states[i].y>>
            /\ Written(Slot(call.orbElementsColor, i))
                 => /\ i \in DOMAIN states
                    /\ Translation(call.orbElementsColor[i])
                         = <<states[i].x, states[i].y>>

\* C8 witness: an update wrote both layers for two particles at different
\* positions.
C8_Witness ==
    /\ FrameRan
    /\ Len(states) = 2
    /\ <<states[1].x, states[1].y>> # <<states[2].x, states[2].y>>
    /\ \A i \in 1..2 : /\ Written(Slot(call.orbElementsContrast, i))
                       /\ Written(Slot(call.orbElementsColor, i))

\* The position of particle i moved by this frame's velocity: the stored
\* velocity, up to the boost added after the move beyond the margin.
Advanced(before, after, i) ==
    LET slack == IF BeyondMargin(after[i]) THEN MaxBoost ELSE 0
    IN  /\ Abs((after[i].x - before[i].x) - after[i].vx) <= slack
        /\ Abs((after[i].y - before[i].y) - after[i].vy) <= slack

\* C9: an update call that runs a frame raises no error whatever handles
\* are missing; every particle's state advances, and every handle that is
\* present at the index of a particle receives its transform.
C9_MissingHandleSkipped ==
    [][(call'.name = "update" /\ ~ZeroDimension)
          => /\ ~threw'
             /\ time' = time + TIME_STEP
             /\ Len(states') = Len(states)
             /\ \A i \in DOMAIN states :
                   /\ Advanced(states, states', i)
                   /\ Slot(call'.orbElementsContrast, i) # Element
                   /\ Slot(call'.orbElementsColor, i) # Element]_vars

\* C9 witness: an update ran with the contrast handle of particle 1 and
\* the colour handle of particle 2 missing; the colour handle of particle 1
\* and the contrast handle of particle 2 were written.
C9_Witness ==
    /\ FrameRan
    /\ ~threw
    /\ Len(states) = 2
    /\ call.orbElementsContrast[1] = <<>>
    /\ Written(call.orbElementsColor[1])
    /\ Written(call.orbElementsContrast[2])
    /\ call.orbElementsColor[2] = <<>>

\* C10 (as amended): after setConfig(partial), every top-level field that
\* partial does not name keeps its value, nested fields included.
C10_UnnamedTopLevelFieldsKept ==
    [][(call'.name = "setConfig")
          => \A k \in ConfigKeys \ DOMAIN call'.newConfig :
                k \in DOMAIN config' /\ config'[k] = config[k]]_vars

\* C10 witness: setConfig was called with a PHYSICS group only, while the
\* orb count and the sizes hold values an earlier call gave them.
C10_Witness ==
    /\ call.name = "setConfig"
    /\ DOMAIN call.newConfig = {"PHYSICS"}
    /\ config.PHYSICS = call.newConfig.PHYSICS
    /\ config.ORB_COUNT # DEFAULT_CONFIG.ORB_COUNT
    /\ config.SIZE # DEFAULT_CONFIG.SIZE

\* C10 as stated: after setConfig(partial), every field partial does not
\* specify keeps its value, each field of a nested group included.
C10_UnspecifiedFieldsKept ==
    [][(call'.name = "setConfig")
          => \A k \in ConfigKeys :
                IF k \notin DOMAIN call'.newConfig
                THEN k \in DOMAIN config' /\ config'[k] = config[k]
                ELSE k \in GroupKeys =>
                        \A f \in DOMAIN config[k] \ DOMAIN call'.newConfig[k] :
                            /\ f \in DOMAIN config'[k]
                            /\ config'[k][f] = config[k][f]]_vars

\* C11: a setConfig call leaves states, orbs, width and height exactly as
\* they were; the population follows a changed ORB_COUNT only after a later
\* initOrbs call.
C11_SetConfigKeepsPopulation ==
    [][(call'.name = "setConfig")
          => /\ states' = states
             /\ orbs' = orbs
             /\ width' = width
             /\ height' = height]_vars

\* C11 witness: setConfig has changed ORB_COUNT on a populated system with
\* dimensions, and the population still has the size it was built with.
C11_Witness ==
    /\ call.name = "setConfig"
    /\ ~ZeroDimension
    /\ states # <<>>
    /\ Len(states) # config.ORB_COUNT
    /\ Len(orbs) = Len(states)

\* The scale a written contrast handle holds.
ScaleOf(slot) == slot[1][3]

\* C12 as stated: in every update the scale written to a contrast handle
\* is exactly 1.0 when edgeMode is true and lies in [0.8, 0.92] when
\* edgeMode is false, after any sequence of calls.
C12_ScaleInFixedRange ==
    FrameRan =>
        \A i \in DOMAIN call.orbElementsContrast :
            Written(call.orbElementsContrast[i]) =>
                IF call.edgeMode
                THEN ScaleOf(call.orbElementsContrast[i]) = SCALE
                ELSE /\ ScaleOf(call.orbElementsContrast[i]) >= Fx(8, 10)
                     /\ ScaleOf(call.orbElementsContrast[i]) <= Fx(92, 100)

\* The velocity of particle s has a component directed to the centre of
\* the viewport: its scalar product with the vector from the particle's
\* centre to the viewport's centre is positive.
TowardCentre(s) ==
    Mul(s.vx, RoundDiv(width * SCALE, 2) - (s.x + RoundDiv(s.size, 2)))
    + Mul(s.vy, RoundDiv(height * SCALE, 2) - (s.y + RoundDiv(s.size, 2))) > 0

\* C13: a particle placed 1000 px past an edge, whatever its velocity and
\* heading, eventually has a velocity component directed to the centre of
\* the viewport when update is called frame after frame.
C13_FarParticleTurnsBack ==
    <>(FrameRan /\ \A i \in DOMAIN states : TowardCentre(states[i]))

\* C13 witness: after several frames the particle is still more than
\* 900 px past the margin and its velocity points to the centre.
C13_Witness ==
    /\ FrameRan
    /\ time >= 6 * TIME_STEP
    /\ \A i \in DOMAIN states :
          /\ TowardCentre(states[i])
          /\ \/ Abs(states[i].x - 150 * SCALE) > 900 * SCALE
             \/ Abs(states[i].y - 100 * SCALE) > 900 * SCALE

\* The handle arrays of call c hold no transform.
NoHandleWritten(c) ==
    /\ \A i \in DOMAIN c.orbElementsContrast : ~Written(c.orbElementsContrast[i])
    /\ \A i \in DOMAIN c.orbElementsColor : ~Written(c.orbElementsColor[i])

\* C14 (as amended): an update call in the Uninitialized state changes no
\* field other than time and writes to no handle; time is unchanged when a
\* dimension is 0 and advances by one step when the dimensions are set and
\* there are no particles.
C14_UninitializedUpdateKeepsAllButTime ==
    [][(~Running /\ call'.name = "update")
          => /\ width' = width
             /\ height' = height
             /\ states' = states
             /\ orbs' = orbs
             /\ config' = config
             /\ NoHandleWritten(call')
             /\ time' = IF ZeroDimension THEN time ELSE time + TIME_STEP]_vars

\* C14 witness: update has been called with every handle present on a
\* system that has dimensions and no particles.
C14_Witness ==
    /\ call.name = "update"
    /\ ~ZeroDimension
    /\ states = <<>>
    /\ call.orbElementsContrast = AllPresent
    /\ call.orbElementsColor = AllPresent
    /\ time > 0

\* C14 as stated: an update call in the Uninitialized state changes no
\* field of the system and writes to no handle.
C14_UninitializedUpdateIsNoOp ==
    [][(~Running /\ call'.name = "update")
          => /\ width' = width
             /\ height' = height
             /\ states' = states
             /\ orbs' = orbs
             /\ config' = config
             /\ time' = time
             /\ NoHandleWritten(call')]_vars

\* SIZE.MIN <= SIZE.MAX and OPACITY.MIN <= OPACITY.MAX
ValidConfig(cfg) ==
    /\ cfg.SIZE.MIN <= cfg.SIZE.MAX
    /\ cfg.OPACITY.MIN <= cfg.OPACITY.MAX

\* Every particle's size and opacity lie in the configured ranges.
WithinConfiguredRanges ==
    /\ \A i \in DOMAIN states :
          states[i].size >= config.SIZE.MIN /\ states[i].size <= config.SIZE.MAX
    /\ \A i \in DOMAIN orbs :
          /\ orbs[i].size >= config.SIZE.MIN /\ orbs[i].size <= config.SIZE.MAX
          /\ orbs[i].opacity >= config.OPACITY.MIN
          /\ orbs[i].opacity <= config.OPACITY.MAX

\* C15 (as amended): after an initOrbs call made with both dimensions
\* non-zero and a valid configuration, every particle has size in
\* [SIZE.MIN, SIZE.MAX] and opacity in [OPACITY.MIN, OPACITY.MAX].
C15_RangesAfterEffectiveInit ==
    (call.name = "initOrbs" /\ ~ZeroDimension /\ ValidConfig(config))
        => WithinConfiguredRanges

\* C15 witness: initOrbs has rebuilt the particle under an opacity range
\* that setConfig changed, with a size and an opacity inside the ranges.
C15_Witness ==
    /\ call.name = "initOrbs"
    /\ ~ZeroDimension
    /\ config.OPACITY # DEFAULT_CONFIG.OPACITY
    /\ ValidConfig(config)
    /\ Len(states) = 1
    /\ states[1].size > config.SIZE.MIN
    /\ states[1].size < config.SIZE.MAX
    /\ orbs[1].opacity > config.OPACITY.MIN
    /\ orbs[1].opacity < config.OPACITY.MAX

\* C15 as stated: after initOrbs with a valid configuration every particle
\* has size in [SIZE.MIN, SIZE.MAX] and opacity in [OPACITY.MIN, OPACITY.MAX].
C15_RangesAfterAnyInit ==
    (call.name = "initOrbs" /\ ValidConfig(config)) => WithinConfiguredRanges

\* C16: a step that is not an initOrbs call taking effect (update,
\* setConfig, resize, or initOrbs without dimensions) keeps the number of
\* particles and the size of each.
C16_SizeKeptUntilEffectiveInit ==
    [][(~(call'.name = "initOrbs" /\ ~ZeroDimension))
          => /\ Len(states') = Len(states)
             /\ \A i \in DOMAIN states : states'[i].size = states[i].size]_vars

\* C16 witness: two frames have run on two particles of different sizes
\* that are moving.
C16_Witness ==
    /\ FrameRan
    /\ time = 2 * TIME_STEP
    /\ Len(states) = 2
    /\ states[1].size # states[2].size
    /\ \A i \in DOMAIN states : states[i].vx # 0 \/ states[i].vy # 0

\* C17: in every reachable state states and orbs have the same length and,
\* at every index, the same size: index i of both lists is one particle.
C17_StatesAndOrbsIndexPaired ==
    /\ Len(states) = Len(orbs)
    /\ \A i \in DOMAIN states : states[i].size = orbs[i].size

\* C17 witness: a frame has run on two particles of different sizes, each
\* paired with the visual entry of its own size.
C17_Witness ==
    /\ FrameRan
    /\ Len(states) = 2
    /\ Len(orbs) = 2
    /\ states[1].size # states[2].size
    /\ states[1].size = orbs[1].size
    /\ states[2].size = orbs[2].size

\* The velocity particle i has accumulated in a frame before friction: its
\* velocity before the frame with the ambient drift of time t, the change
\* dv made by the pair loop, and the wander force along the heading theta.
Accumulated(before, i, t, dv, theta) ==
    [vx |-> AmbientDrift(before[i], i, t).vx + dv[i][1]
            + Mul(Mul(Cos(theta), config.PHYSICS.ACCELERATION), Fx(5, 10)),
     vy |-> AmbientDrift(before[i], i, t).vy + dv[i][2]
            + Mul(Mul(Sin(theta), config.PHYSICS.ACCELERATION), Fx(5, 10))]

\* s moves with the velocity v.
MovesWith(s, v) == s.vx = v.vx /\ s.vy = v.vy

\* C18 (as amended): friction is applied after the ambient drift, the
\* pairwise forces and the wander acceleration of the frame: a particle
\* that ends the frame within the margin has the accumulated velocity
\* times the friction coefficient, limited to the maximum speed.  The
\* boundary boost is added after friction: a particle that ends the frame
\* beyond the margin has moved by its velocity up to a boost of 0.05.
C18_FrictionAfterForcesBeforeBoost ==
    [][(call'.name = "update" /\ ~ZeroDimension)
          => \A i \in DOMAIN states :
                IF BeyondMargin(states'[i])
                THEN Advanced(states, states', i)
                ELSE MovesWith(states'[i],
                        LimitVelocity(
                            Friction(Accumulated(states, i, time', pairDv',
                                                 states'[i].wanderTheta),
                                     config),
                            config))]_vars

\* C18 witness: a frame has run on two particles; one ends within the
\* margin, below the maximum speed, with a velocity the pair loop changed.
C18_Witness ==
    /\ FrameRan
    /\ Len(states) = 2
    /\ \E i \in DOMAIN states :
          /\ ~BeyondMargin(states[i])
          /\ Speed(states[i]) < config.PHYSICS.MAX_VELOCITY
          /\ pairDv[i] # <<0, 0>>

\* C18 as stated: no velocity increment is added after the friction
\* multiplication, so the velocity a particle ends the frame with is the
\* velocity it was moved by in that frame.
C18_NoIncrementAfterFriction ==
    [][(call'.name = "update" /\ ~ZeroDimension)
          => \A i \in DOMAIN states :
                /\ states'[i].x - states[i].x = states'[i].vx
                /\ states'[i].y - states[i].y = states'[i].vy]_vars

\* The velocity change gravity alone makes in the pair loop to the two
\* particles of sts, whose centres differ by (dx, dy) and are dist apart:
\* each is pulled to the other by forceG / mass along the centre line.
GravityPull(sts, cfg, dx, dy, dist) ==
    << <<-Div(Mul(Div(dx, dist),
                  GravityForce(cfg, sts[1].size, sts[2].size,
                               Mul(dx, dx) + Mul(dy, dy))), sts[1].size),
         -Div(Mul(Div(dy, dist),
                  GravityForce(cfg, sts[1].size, sts[2].size,
                               Mul(dx, dx) + Mul(dy, dy))), sts[1].size)>>,
       <<Div(Mul(Div(dx, dist),
                 GravityForce(cfg, sts[1].size, sts[2].size,
                              Mul(dx, dx) + Mul(dy, dy))), sts[2].size),
         Div(Mul(Div(dy, dist),
                 GravityForce(cfg, sts[1].size, sts[2].size,
                              Mul(dx, dx) + Mul(dy, dy))), sts[2].size)>> >>

\* The pair loop changed the velocities of the pair sts by dv, and dv is
\* more than the pull of gravity: a contact force (repulsion, suction or
\* slide) was applied.
ContactSeen(sts, cfg, dv) ==
    dv # GravityPull(sts, cfg, PairDx(sts), PairDy(sts), CentreDist(sts))

\* C19 (as amended): the contact force is applied to a pair exactly when
\* the centre distance is less than (r1 + r2) * 1.3, whatever value
\* PHYSICS.REPULSION_RADIUS_FACTOR is configured to.
C19_ContactWithinFixedRange ==
    [][(call'.name = "update" /\ Len(states) = 2 /\ CentreDist(states) > 0)
          => (ContactSeen(states, config, pairDv')
                <=> CentreDist(states) < Mul(TouchDist(states), Fx(13, 10)))]_vars

\* C19 witness: under a configured factor of 2, a frame has run on a pair
\* whose centres are between 1.4 and 1.6 times r1 + r2 apart, and the pair
\* loop pulled the two together.
C19_Witness ==
    /\ FrameRan
    /\ time = TIME_STEP
    /\ config.PHYSICS.REPULSION_RADIUS_FACTOR = 2 * SCALE
    /\ Len(states) = 2
    /\ CentreDist(states) > Mul(TouchDist(states), Fx(14, 10))
    /\ CentreDist(states) < Mul(TouchDist(states), Fx(16, 10))
    /\ RadialPush(states, pairDv) < 0

\* C19 as stated: the contact force is applied to a pair exactly when the
\* centre distance is less than (r1 + r2) times the configured
\* PHYSICS.REPULSION_RADIUS_FACTOR.
C19_ContactWithinConfiguredRange ==
    [][(call'.name = "update" /\ Len(states) = 2 /\ CentreDist(states) > 0)
          => (ContactSeen(states, config, pairDv')
                <=> CentreDist(states)
                      < Mul(TouchDist(states),
                            config.PHYSICS.REPULSION_RADIUS_FACTOR))]_vars

\* The centres of particles i and j of sts coincide exactly.
Coincide(sts, i, j) ==
    /\ sts[i].x + RoundDiv(sts[i].size, 2) = sts[j].x + RoundDiv(sts[j].size, 2)
    /\ sts[i].y + RoundDiv(sts[i].size, 2) = sts[j].y + RoundDiv(sts[j].size, 2)

\* The velocity of particle i of after less that of before.
VelocityChange(before, after, i) ==
    <<after[i].vx - before[i].vx, after[i].vy - before[i].vy>>

\* C20: when the centres of particles 1 and 2 of three coincide, the pair
\* loop changes each velocity by what the pairs (1, 3) and (2, 3) alone
\* contribute: the pair (1, 2) contributes nothing, and the other pairs
\* are processed (the third particle's velocity changes).
C20_CoincidentPairSkipped ==
    [][(call'.name = "update" /\ Len(states) = 3 /\ Coincide(states, 1, 2))
          => /\ ~threw'
             /\ \A i \in DOMAIN states :
                   pairDv'[i] =
                       VelocityChange(states,
                           ApplyPair(ApplyPair(states, config, 1, 3), config, 2, 3),
                           i)
             /\ pairDv'[3] # <<0, 0>>]_vars

\* C20 witness: a first frame has run on three particles of which the
\* first two, placed on one centre, are still within a pixel of each
\* other; the pair loop changed the velocity of each of the three.
C20_Witness ==
    /\ FrameRan
    /\ time = TIME_STEP
    /\ Len(states) = 3
    /\ Abs(PairDx(states)) <= SCALE
    /\ Abs(PairDy(states)) <= SCALE
    /\ \A i \in DOMAIN states : pairDv[i] # <<0, 0>>

\* The momentum the velocity changes dv give the particles of sts along
\* axis k (1: x, 2: y), summed from particle i on: size * delta-v each.
RECURSIVE MomentumFrom(_, _, _, _)
MomentumFrom(sts, dv, k, i) ==
    IF i > Len(sts) THEN 0
    ELSE Mul(sts[i].size, dv[i][k]) + MomentumFrom(sts, dv, k, i + 1)

Momentum(sts, dv, k) == MomentumFrom(sts, dv, k, 1)

\* The sizes of the particles of sts from particle i on, summed.
RECURSIVE SizesFrom(_, _)
SizesFrom(sts, i) ==
    IF i > Len(sts) THEN 0 ELSE sts[i].size + SizesFrom(sts, i + 1)

\* Rounding tolerance on a momentum: each of the three impulses of a pair
\* (gravity, contact, slide) is rounded to half a unit of velocity when it
\* is divided by the mass, so size * delta-v is off by up to half a unit
\* per pixel of size and impulse; two units per pixel of size in all.
MomentumTolerance(sts) == 2 * RoundDiv(SizesFrom(sts, 1), SCALE)

\* C21: the pairwise phase of a frame gives the particles velocity changes
\* whose momenta cancel: the sum of size * delta-v over the particles is
\* zero on each axis, up to the rounding of the divisions by the masses.
C21_PairImpulsesCancel ==
    FrameRan =>
        /\ Len(pairDv) = Len(states)
        /\ Abs(Momentum(states, pairDv, 1)) <= MomentumTolerance(states)
        /\ Abs(Momentum(states, pairDv, 2)) <= MomentumTolerance(states)

\* C21 witness: a first frame has run on two particles of different sizes
\* whose discs overlap (centres nearer than r1 + r2 after the frame), and
\* the pair loop changed the velocity of each by more than the tolerance
\* divided by its size.
C21_Witness ==
    /\ FrameRan
    /\ time = TIME_STEP
    /\ Len(states) = 2
    /\ states[1].size # states[2].size
    /\ CentreDist(states) < TouchDist(states)
    /\ \A i \in DOMAIN states :
          Abs(Mul(states[i].size, pairDv[i][1])) > 10 * MomentumTolerance(states)

\* The pair loop run backwards: the pairs from (i, j) down, last pair of
\* the loop order first.
RECURSIVE PairLoopReversed(_, _, _, _)
PairLoopReversed(sts, cfg, i, j) ==
    IF i < 1 THEN sts
    ELSE IF j <= i THEN PairLoopReversed(sts, cfg, i - 1, Len(sts))
    ELSE PairLoopReversed(ApplyPair(sts, cfg, i, j), cfg, i, j - 1)

\* Particle i of after is where particle i of before was, with its size
\* and heading.
SamePlace(before, after, i) ==
    /\ after[i].x = before[i].x
    /\ after[i].y = before[i].y
    /\ after[i].size = before[i].size
    /\ after[i].wanderTheta = before[i].wanderTheta

\* The loop that took the states sts to paired left every particle in
\* place and changed each velocity by dv, as did the loop run in reverse
\* order, which took them to reversed.
SnapshotPhase(sts, paired, reversed, dv) ==
    \A i \in DOMAIN sts :
        /\ SamePlace(sts, paired, i)
        /\ dv[i] = VelocityChange(sts, paired, i)
        /\ dv[i] = VelocityChange(sts, reversed, i)

\* The pair loop and the reversed loop run on the states sts.
SnapshotOf(sts, cfg, dv) ==
    SnapshotPhase(sts, PairLoop(sts, cfg, 1, 2),
                  PairLoopReversed(sts, cfg, Len(sts), Len(sts)), dv)

\* C22: the pairwise phase of a frame moves no particle (position, size
\* and heading are as the ambient drift left them), and the velocity
\* change it gives each particle is the same when the pairs are processed
\* in the reverse order.
C22_PairPhaseOnSnapshot ==
    [][(call'.name = "update" /\ ~ZeroDimension)
          => SnapshotOf(AfterDrift(states, time'), config, pairDv')]_vars

\* C22 witness: a second frame has run on three particles, no two of them
\* on one centre, and the pair loop changed the velocity of each.
C22_Witness ==
    /\ FrameRan
    /\ time = 2 * TIME_STEP
    /\ Len(states) = 3
    /\ ~Coincide(states, 1, 2)
    /\ ~Coincide(states, 1, 3)
    /\ ~Coincide(states, 2, 3)
    /\ \A i \in DOMAIN states : pairDv[i] # <<0, 0>>

\* Particle i as the pair loop of the frame at time t left it: the state
\* before the frame with the ambient drift and the pairwise change dv.
AfterPairs(before, i, t, dv) ==
    [AmbientDrift(before[i], i, t)
        EXCEPT !.vx = @ + dv[i][1], !.vy = @ + dv[i][2]]

\* The particle s after steps 2 to 4 of the forEach body (wander with the
\* draw u, friction, speed limit, position update): as the boundary step
\* finds it.
BeforeBoundary(s, cfg, u) ==
    Integrate(LimitVelocity(Friction(Wander(s, cfg, u), cfg), cfg))

\* The boundary step took the particle from pre to post without writing
\* its position or size, and without any change when pre is within the
\* margin.
SteeredOnly(pre, post) ==
    /\ post.x = pre.x
    /\ post.y = pre.y
    /\ post.size = pre.size
    /\ (~BeyondMargin(pre) => post = pre)

\* C23: in every frame, the boundary step leaves each particle at the
\* position steps 2 to 4 moved it to, and leaves a particle that is within
\* the margin there entirely as it found it (u: the frame's Math.random()
\* for the particle).
C23_BoundarySteersOnly ==
    [][(call'.name = "update" /\ ~ZeroDimension)
          => \A i \in DOMAIN states :
                \E k \in DOMAIN RandSamples :
                    SteeredOnly(BeforeBoundary(
                                    AfterPairs(states, i, time', pairDv'),
                                    config, RandSamples[k]),
                                states'[i])]_vars

\* C23 witness: a frame has run and left a particle beyond the margin,
\* further from it than one frame's travel, so that the boundary step
\* found it beyond the margin and steered it.
C23_Witness ==
    /\ FrameRan
    /\ \E i \in DOMAIN states :
          \/ states[i].x < -101 * SCALE
          \/ states[i].x > width * SCALE + 101 * SCALE - states[i].size
          \/ states[i].y < -101 * SCALE
          \/ states[i].y > height * SCALE + 101 * SCALE - states[i].size

\* The call in progress is in a normalization loop.
InLoop == UpdateRunning /\ call.phase # "exited"

\* The headings of the system are within the integers a double resolves
\* to the unit (below 2^31 units).
Resolvable == \A i \in DOMAIN states : DIsInt(states[i].wanderTheta)

\* C24 as stated: the normalization loops of an update call entered with
\* dimensions set always exit, whatever the magnitude of wanderTheta.
C24_NormalizationLoopsExit == InLoop ~> ~InLoop

\* For a heading of a few turns the normalization loops exit.
TurnedHeadingsExit == (InLoop /\ Resolvable) ~> ~InLoop

\* The length of the move from one position of a particle to another.
Displacement(before, after) ==
    Hypot(after.x - before.x, after.y - before.y)

\* C25: in every frame, each particle's position changes by a displacement
\* of length at most PHYSICS.MAX_VELOCITY (plus the rounding tolerance),
\* whatever velocity it entered the frame with.
C25_DisplacementWithinLimit ==
    [][(call'.name = "update" /\ ~ZeroDimension)
          => \A i \in DOMAIN states :
                Displacement(states[i], states'[i])
                    <= config.PHYSICS.MAX_VELOCITY + SpeedTolerance]_vars

\* C25 witness: the first frame after initOrbs has run, on a particle that
\* initOrbs gave a speed above the limit (1 or more on an axis), and has
\* left it within the margin at the limit: the limit acted on the
\* velocity it was moved by.
C25_Witness ==
    /\ FrameRan
    /\ time = TIME_STEP
    /\ \E i \in DOMAIN states :
          /\ ~BeyondMargin(states[i])
          /\ Speed(states[i]) >= config.PHYSICS.MAX_VELOCITY - SpeedTolerance
          /\ Speed(states[i]) <= config.PHYSICS.MAX_VELOCITY + SpeedTolerance

\* No velocity change in the pair loop.
NoPairChange == << <<0, 0>>, <<0, 0>> >>

\* C26 as stated: a configured strength of 0 disables the force.  With
\* GRAVITY_STRENGTH = 0 a pair beyond the interaction range, on which
\* gravity is the only pairwise force, gets no velocity change from the
\* pair loop; with REPULSION_STRENGTH = 0 an overlapping pair is not
\* pushed apart by it.
C26_ZeroStrengthDisables ==
    [][(call'.name = "update" /\ ~ZeroDimension /\ Len(states) = 2
            /\ CentreDist(states) > 0)
          => /\ (/\ config.PHYSICS.GRAVITY_STRENGTH = 0
                 /\ CentreDist(states) >= Mul(TouchDist(states), Fx(13, 10)))
                    => pairDv' = NoPairChange
             /\ (/\ config.PHYSICS.REPULSION_STRENGTH = 0
                 /\ CentreDist(states) < TouchDist(states))
                    => RadialPush(states, pairDv') <= 0]_vars

\* The configuration with a strength of 0 replaced by the value update
\* takes in its place.
WithFallbacks(cfg) ==
    [cfg EXCEPT !.PHYSICS.GRAVITY_STRENGTH = GRAVITY_STRENGTH(cfg),
                !.PHYSICS.REPULSION_STRENGTH = repulsionStrength(cfg)]

\* Under a strength of 0 the pair loop changes the velocities exactly as
\* under a gravity strength of 0.05 and a repulsion strength of 0.5.
ZeroStrengthFallsBack ==
    [][(call'.name = "update" /\ ~ZeroDimension /\ Len(states) = 2)
          => \E paired \in {PairLoop(AfterDrift(states, time'),
                                     WithFallbacks(config), 1, 2)} :
                \A i \in DOMAIN states :
                    /\ pairDv'[i][1] = paired[i].vx - AfterDrift(states, time')[i].vx
                    /\ pairDv'[i][2] = paired[i].vy - AfterDrift(states, time')[i].vy]_vars

\* While the loop condition holds, an iteration changes diff: the double
\* it is added to is not so large that the sum rounds back to it.
LoopIterationAdvances ==
    UpdateRunning =>
        /\ (call.phase = "raise" /\ DLess(call.diff, -PI))
              => DAddInt(call.diff, TWO_PI) # call.diff
        /\ (call.phase = "lower" /\ DGreater(call.diff, PI))
              => DAddInt(call.diff, -TWO_PI) # call.diff

\* Call j of the page is in flight: its promise has not settled.
InFlight(j) == page.jobs[j].state = "pending"

\* C27 as stated: isProcessing is true in every state in which a
\* generateStandard or generateCustom call is still in flight.
C27_ProcessingWhileInFlight ==
    (\E j \in DOMAIN page.jobs : InFlight(j)) => page.isProcessing

\* C28 as stated: every entry of results was generated from the currently
\* selected file.
C28_ResultsOfSelectedFile ==
    \A k \in DOMAIN page.results :
        page.results[k].file = page.selectedFile

\* While a file is selected, no result made from another file is listed.
NoResultOfAnotherFile ==
    page.selectedFile # NoFile
        => \A k \in DOMAIN page.results :
              page.results[k].file = page.selectedFile

\* C29 as stated: every Worker created by generateStandard or
\* generateCustom is eventually terminated, whether the processing call
\* succeeds or fails.
C29_WorkersTerminated ==
    \A j \in 1..MaxJobs :
        (Len(page.jobs) >= j)
            ~> (Len(page.jobs) >= j /\ page.jobs[j].terminated)

\* The worker of every call that succeeded is terminated, and of no other.
WorkersOfResolvedTerminated ==
    \A j \in DOMAIN page.jobs :
        page.jobs[j].terminated <=> page.jobs[j].state = "resolved"

\* C30 as stated: the size bounds the page feeds to the background always
\* form a valid range, bgSizeMin <= bgSizeMax.
C30_SizeRangeValid == page.bgSizeMin <= page.bgSizeMax
=============================================================================
